---- MODULE Spec2Model ----
(***************************************************************************)
(* Audio2TextJS: the transcription pipeline (runWhisper), the model cache  *)
(* (downloadModel), the audio normaliser (convertAudioFile) and the        *)
(* provisioning of the executables (fetchBinFiles), modelled as state      *)
(* machines over an abstract file system and the events of the             *)
(* subprocesses and downloads they start.                                  *)
(*                                                                         *)
(* One step of the model is one turn of the Node event loop: the           *)
(* synchronous code run by a call, by the continuation of an await, or by  *)
(* a subprocess event handler.                                             *)
(***************************************************************************)
EXTENDS Integers, Sequences, FiniteSets, TLC

(***************************************************************************)
(* Bounds of the model.                                                    *)
(***************************************************************************)
\* how many downloader processes one downloadModel call may have running
MaxDownloaders == 1
\* how many stderr chunks the engine may emit before it closes
MaxStderrChunks == 1
\* fetchBinFiles calls made one after the other
MaxFetchCalls == 2
\* the chunks a downloaded model file is written in
ModelChunks == 2

(***************************************************************************)
(* JavaScript values: option values are tagged so that truthiness and      *)
(* template-literal conversion can be computed as JavaScript does.         *)
(***************************************************************************)
JsBool(b) == [t |-> "bool", b |-> b, n |-> 0, s |-> ""]
JsNum(n) == [t |-> "num", b |-> FALSE, n |-> n, s |-> ""]
JsStr(s) == [t |-> "str", b |-> FALSE, n |-> 0, s |-> s]
JsUndefined == [t |-> "undef", b |-> FALSE, n |-> 0, s |-> ""]

\* JavaScript truthiness (the operands of ||, ?: and Boolean())
Truthy(v) ==
    CASE v.t = "bool" -> v.b
      [] v.t = "num" -> v.n # 0
      [] v.t = "str" -> v.s # ""
      [] OTHER -> FALSE

\* `${v}`: the string a template literal produces for v
TemplateStr(v) ==
    CASE v.t = "bool" -> (IF v.b THEN "true" ELSE "false")
      [] v.t = "num" -> ToString(v.n)
      [] v.t = "str" -> v.s
      [] OTHER -> "undefined"

\* obj.key of a plain object: undefined when the key is absent
Get(obj, key) == IF key \in DOMAIN obj THEN obj[key] ELSE JsUndefined

(***************************************************************************)
(* Audio2TextJS constructor.                                               *)
(***************************************************************************)
defaultOptions ==
    [threads |-> JsNum(4), processors |-> JsNum(1), duration |-> JsNum(0),
     maxLen |-> JsNum(0), outputJson |-> JsBool(FALSE),
     outputTxt |-> JsBool(FALSE), outputCsv |-> JsBool(FALSE)]

\* { ...this.defaultOptions, ...options }: the caller's keys win
MergeOptions(userOptions) == userOptions @@ defaultOptions

\* the switches a caller may set, and the option objects the model draws from
FlagKeys == {"outputJson", "outputTxt", "outputCsv", "outputAll", "translate"}
UserOptions ==
    { [k \in S |-> JsBool(TRUE)] : S \in SUBSET FlagKeys }
      \cup { [outputJson |-> JsBool(FALSE)],
             [outputJson |-> JsBool(TRUE), maxLen |-> JsStr("")],
             [outputTxt |-> JsBool(TRUE), threads |-> JsStr("")] }

\* the three output formats, in the order the close handler collects them
Formats == <<"json", "txt", "csv">>
FormatOption(f) ==
    CASE f = "json" -> "outputJson" [] f = "txt" -> "outputTxt" [] OTHER -> "outputCsv"
FormatFlag(f) == "--output-" \o f

\* (outputJson || outputAll) and its siblings
Requested(opts, f) ==
    Truthy(Get(opts, FormatOption(f))) \/ Truthy(Get(opts, "outputAll"))

(***************************************************************************)
(* The engine's argument list.                                             *)
(***************************************************************************)
RECURSIVE FilterBoolean(_)
\* Array.prototype.filter(Boolean) on an array of strings: drops every ''
FilterBoolean(s) ==
    IF s = <<>> THEN <<>>
    ELSE IF Head(s) = "" THEN FilterBoolean(Tail(s))
         ELSE <<Head(s)>> \o FilterBoolean(Tail(s))

\* an argument list whose CSV switch follows the TXT option
RawArgsCsvFollowsTxt(opts, modelFile, language, file) ==
    << "--threads", TemplateStr(Get(opts, "threads")),
       "--processors", TemplateStr(Get(opts, "processors")),
       "--duration", TemplateStr(Get(opts, "duration")),
       "--max-len", TemplateStr(Get(opts, "maxLen")),
       IF Requested(opts, "json") THEN "--output-json" ELSE "",
       IF Requested(opts, "txt") THEN "--output-txt" ELSE "",
       IF Requested(opts, "txt") THEN "--output-csv" ELSE "",
       IF Truthy(Get(opts, "translate")) THEN "--translate" ELSE "",
       "--model", modelFile,
       "--language", language,
       "--file", file >>

\* the array literal of runWhisper, before the filter
RawArgs(opts, modelFile, language, file) ==
    << "--threads", TemplateStr(Get(opts, "threads")),
       "--processors", TemplateStr(Get(opts, "processors")),
       "--duration", TemplateStr(Get(opts, "duration")),
       "--max-len", TemplateStr(Get(opts, "maxLen")),
       IF Requested(opts, "json") THEN "--output-json" ELSE "",
       IF Requested(opts, "txt") THEN "--output-txt" ELSE "",
       IF Requested(opts, "csv") THEN "--output-csv" ELSE "",
       IF Truthy(Get(opts, "translate")) THEN "--translate" ELSE "",
       "--model", modelFile,
       "--language", language,
       "--file", file >>

BuildArgs(opts, modelFile, language, file) ==
    FilterBoolean(RawArgs(opts, modelFile, language, file))

(***************************************************************************)
(* State.                                                                  *)
(***************************************************************************)
VARIABLES
    platform,        \* process.platform / os.platform()
    arch,            \* process.arch / os.arch()
    fs,              \* the file system: path -> what is stored there
    options,         \* this.options of the Audio2TextJS instance
    pc,              \* where the runWhisper invocation stands
    inputFile,       \* runWhisper argument: <<stem, extension>>
    model,           \* runWhisper argument
    language,        \* runWhisper argument
    downloaders,     \* model name -> state of the wget/curl process spawned for it
    calls,           \* model name -> promise of downloadModel(<that model>)
    resultDownModel, \* promise of the downloadModel call made by runWhisper
    conv,            \* locals of the running convertAudioFile call
    CWF,             \* promise of the convertAudioFile call
    args,            \* argument list handed to the engine
    engine,          \* state of the engine subprocess
    stderr,          \* stderr text captured from the engine, a list of chunks
    outputFiles,     \* artifacts collected so far by the close handler
    promise,         \* the promise runWhisper returned to its caller
    uncaught,        \* an 'error' event with no listener has crashed the process
    log,             \* the calls, file-system accesses and spawns made, in order
    manifest,        \* the content of binFiles.json: platform -> list of entries
    fb,              \* locals of the running fetchBinFiles call
    returned,        \* the fetchBinFiles call that returned last, and the one before
    env,             \* process.env (LD_LIBRARY_PATH, HOME) and ~/.bashrc
    writers,         \* write streams created whose file is not opened yet
    inv,             \* caller -> locals of its runWhisper invocation, when two run at once
    touched          \* the accesses two invocations made to their per-request files

\* the state of the provisioning of the executables
fetchVars == <<manifest, fb, returned, env, writers>>

\* the state of two runWhisper invocations running at once
concVars == <<inv, touched>>

vars == <<platform, arch, fs, options, pc, inputFile, model, language,
          downloaders, calls, resultDownModel, conv, CWF, args, engine,
          stderr, outputFiles, promise, uncaught, log, fetchVars, concVars>>

(***************************************************************************)
(* Promises, log events, files.                                            *)
(***************************************************************************)
Pending == [state |-> "pending"]
Resolved(v) == [state |-> "resolved", value |-> v]
Rejected(v) == [state |-> "rejected", value |-> v]
Settled(p) == p.state # "pending"
\* resolve()/reject() on a promise that is already settled does nothing
Settle(p, q) == IF Settled(p) THEN p ELSE q
\* what `await p` yields a value for
Fulfilled(p) == p.state = "resolved"

Ev(op, arg) == [op |-> op, arg |-> arg]
\* the log entry for a step whose promise p has settled: "ok" when it was
\* resolved with success: true, "failed" otherwise
StepEvent(step, p) ==
    Ev(IF Fulfilled(p) /\ p.value.success THEN "ok" ELSE "failed", step)

Dir == [kind |-> "dir", rate |-> 0, ok |-> TRUE]
Binary == [kind |-> "bin", rate |-> 0, ok |-> TRUE]
Audio(rate) == [kind |-> "audio", rate |-> rate, ok |-> TRUE]
\* a model file; ok is FALSE while it is only partly written
ModelData(ok) == [kind |-> "model", rate |-> 0, ok |-> ok]
\* an artifact written by the engine; ok is FALSE when its text is not valid JSON
Artifact(ok) == [kind |-> "text", rate |-> 0, ok |-> ok]

existsSync(f, path) == path \in DOMAIN f
WriteFile(f, path, data) == (path :> data) @@ f
Unlink(f, path) == [p \in (DOMAIN f) \ {path} |-> f[p]]

(***************************************************************************)
(* downloadWhisperModels.js                                                *)
(***************************************************************************)
models ==
    << "tiny.en", "tiny", "base.en", "base", "small.en", "small",
       "medium.en", "medium", "large-v1", "large" >>

ModelSet == { models[i] : i \in 1..Len(models) }

\* path.join(scriptPath, folder) with the default folder
modelsPath == "models"
\* path.join(modelsPath, `ggml-${model}.bin`)
ModelFile(m) == modelsPath \o "/ggml-" \o m \o ".bin"

\* platform === 'win32' ? 'curl' : 'wget'
DownloaderProgram(plat) == IF plat = "win32" THEN "curl" ELSE "wget"

\* models.includes(model) || model === 'all', negated
IsInvalidModel(m) == m \notin ModelSet /\ m # "all"

\* createModelsDirectory: returns the file system and the accesses made
createModelsDirectory(f) ==
    IF existsSync(f, modelsPath)
    THEN [fs |-> f, events |-> <<Ev("existsSync", modelsPath)>>]
    ELSE [fs |-> WriteFile(f, modelsPath, Dir),
          events |-> <<Ev("existsSync", modelsPath), Ev("mkdirSync", modelsPath)>>]

\* listModels: one console line per model, framed by a header and 'all'
listModels ==
    <<Ev("console", "Available models:")>>
      \o [i \in 1..Len(models) |-> Ev("console", models[i])]
      \o <<Ev("console", "all")>>

\* a downloadModel that does not look for the model file before downloading
DownloadOneNoCacheCheck(m, f, plat) ==
    LET d == createModelsDirectory(f)
    IN  [fs |-> d.fs,
         events |-> d.events \o <<Ev("console", "Downloading ggml model"),
                                  Ev("spawn", DownloaderProgram(plat))>>,
         spawned |-> TRUE,
         promise |-> Pending]

\* The synchronous part of downloadModel(m) for one supported model:
\* directory, cache check, spawn.  `spawned` tells whether a downloader runs.
DownloadOne(m, f, plat) ==
    LET d == createModelsDirectory(f)
        hit == existsSync(d.fs, ModelFile(m))
    IN  [fs |-> d.fs,
         events |-> d.events \o <<Ev("existsSync", ModelFile(m))>>
                      \o (IF hit THEN <<>>
                          ELSE <<Ev("console", "Downloading ggml model"),
                                 Ev("spawn", DownloaderProgram(plat))>>),
         spawned |-> ~hit,
         promise |-> IF hit
                     THEN Resolved([success |-> TRUE,
                                    message |-> <<"Model ", m, " already exists. Skipping download.">>,
                                    modelFile |-> ModelFile(m),
                                    modelName |-> m])
                     ELSE Pending]

RECURSIVE FanOut(_, _, _, _)
\* models.map(modelItem => downloadModel(modelItem, folder)), from index i on
FanOut(i, f, plat, acc) ==
    IF i > Len(models) THEN [acc EXCEPT !.fs = f]
    ELSE LET one == DownloadOne(models[i], f, plat)
         IN  FanOut(i + 1, one.fs, plat,
                    [fs |-> one.fs,
                     events |-> acc.events \o one.events,
                     spawned |-> acc.spawned \cup (IF one.spawned THEN {models[i]} ELSE {}),
                     calls |-> (models[i] :> one.promise) @@ acc.calls])

\* Promise.all over the per-model promises, as far as it can be told now:
\* resolved with the values in list order once every one is resolved.
AllResolved(cs) ==
    Resolved([success |-> TRUE,
              details |-> [i \in 1..Len(models) |-> cs[models[i]].value]])

\* downloadModel(m) once m has passed validation
downloadValid(m, f, plat) ==
    IF m = "all"
    THEN LET d == createModelsDirectory(f)
             fan == FanOut(1, d.fs, plat,
                           [fs |-> d.fs, events |-> d.events,
                            spawned |-> {}, calls |-> <<>>])
         IN  [fs |-> fan.fs, events |-> fan.events, spawned |-> fan.spawned,
              calls |-> fan.calls,
              promise |-> IF fan.spawned = {} THEN AllResolved(fan.calls) ELSE Pending]
    ELSE LET one == DownloadOne(m, f, plat)
         IN  [fs |-> one.fs, events |-> one.events,
              spawned |-> IF one.spawned THEN {m} ELSE {},
              calls |-> (m :> one.promise), promise |-> one.promise]

\* the result of the validation failure at the top of downloadModel
InvalidModelResult(m) ==
    [success |-> FALSE, message |-> <<"Invalid model: ", m>>]

\* a downloadModel that creates the models directory before it validates
downloadModelMkdirFirst(m, f, plat) ==
    IF IsInvalidModel(m)
    THEN LET d == createModelsDirectory(f)
         IN  [fs |-> d.fs,
              events |-> d.events \o <<Ev("console", "Invalid model")>> \o listModels,
              spawned |-> {}, calls |-> <<>>,
              promise |-> Resolved(InvalidModelResult(m))]
    ELSE downloadValid(m, f, plat)

\* The synchronous part of downloadModel(m): the promise executor up to the
\* point where it returns, waiting for the downloader(s) if any were spawned.
downloadModel(m, f, plat) ==
    IF IsInvalidModel(m)
    THEN [fs |-> f,
          events |-> <<Ev("console", "Invalid model")>> \o listModels,
          spawned |-> {}, calls |-> <<>>,
          promise |-> Resolved(InvalidModelResult(m))]
    ELSE downloadValid(m, f, plat)

\* the rejection and the resolution of the downloader's close handler
DownloadFailed(m) ==
    [success |-> FALSE, error |-> <<"Failed to download ggml model ", m>>]
DownloadDone(m) ==
    [success |-> TRUE,
     message |-> <<"Done! Model '", m, "' saved in '", ModelFile(m), "'">>,
     modelFile |-> ModelFile(m), modelName |-> m]

\* the promise of the downloader's close handler for exit code `code`
DownloaderOutcome(m, code) ==
    IF code # 0 THEN Rejected(DownloadFailed(m)) ELSE Resolved(DownloadDone(m))

\* The promise downloadModel(top) returned, after the sub-call promises
\* became cs: Promise.all rejects with the first rejection it sees and
\* resolves once every promise is resolved.
TopPromise(top, old, cs, m) ==
    IF top # "all" THEN Settle(old, cs[m])
    ELSE IF cs[m].state = "rejected"
         THEN Settle(old, Rejected([success |-> FALSE, error |-> cs[m].value]))
         ELSE IF \A k \in DOMAIN cs : cs[k].state = "resolved"
              THEN Settle(old, AllResolved(cs))
              ELSE old

(***************************************************************************)
(* convertAudioFile.js: locating the converter and the prober.             *)
(***************************************************************************)
DesiredSampleRate == 16000

BinPath(plat, ar, prog) ==
    IF plat = "win32" THEN "bin/win32/" \o prog \o ".exe"
    ELSE IF ar = "x64" THEN "bin/linux/" \o prog
         ELSE "bin/linux/" \o prog \o "-aarch64"

\* a getFFmpegPaths that returns the paths without looking for the files
getFFmpegPathsNoExistsCheck(plat, ar, f) ==
    IF plat = "win32" \/ (plat \in {"linux", "android"} /\ ar \in {"x64", "arm64", "arm"})
    THEN [throws |-> "", found |-> TRUE,
          ffmpegPath |-> BinPath(plat, ar, "ffmpeg"),
          ffprobePath |-> BinPath(plat, ar, "ffprobe"),
          events |-> <<>>]
    ELSE [throws |-> IF plat \in {"linux", "android"}
                     THEN "Unsupported architecture."
                     ELSE "Unsupported operating system.",
          found |-> FALSE, ffmpegPath |-> "", ffprobePath |-> "", events |-> <<>>]

\* getFFmpegPaths: `throws` is the message of the Error thrown, "" if none;
\* found is FALSE when the function returns the pair of nulls
getFFmpegPaths(plat, ar, f) ==
    IF plat = "win32" \/ (plat \in {"linux", "android"} /\ ar \in {"x64", "arm64", "arm"})
    THEN LET ffmpegPath == BinPath(plat, ar, "ffmpeg")
             ffprobePath == BinPath(plat, ar, "ffprobe")
         IN  [throws |-> "",
              found |-> existsSync(f, ffmpegPath) /\ existsSync(f, ffprobePath),
              ffmpegPath |-> ffmpegPath, ffprobePath |-> ffprobePath,
              events |-> <<Ev("existsSync", ffmpegPath)>>
                           \o (IF existsSync(f, ffmpegPath)
                               THEN <<Ev("existsSync", ffprobePath)>> ELSE <<>>)]
    ELSE [throws |-> IF plat \in {"linux", "android"}
                     THEN "Unsupported architecture."
                     ELSE "Unsupported operating system.",
          found |-> FALSE, ffmpegPath |-> "", ffprobePath |-> "", events |-> <<>>]

\* path.extname(p).toLowerCase() over the extensions the model uses
ToLowerCase(ext) == IF ext = ".WAV" THEN ".wav" ELSE ext
PathStr(p) == p[1] \o p[2]
extname(p) == p[2]

\* the value the catch block of convertAudioFile returns
ConvertFailure(input, errorMessage) ==
    [success |-> FALSE,
     message |-> <<"Failed to convert '", input,
                   "' to the desired sample rate: ">> \o errorMessage]

\* a probe whose result is taken to be the desired rate whatever the file holds
RateOfAsDesired(f, path) == IF path \in DOMAIN f THEN DesiredSampleRate ELSE 0

\* what fs.existsSync / ffprobe see of a file's sample rate (0 when absent)
RateOf(f, path) == IF path \in DOMAIN f THEN f[path].rate ELSE 0

\* a convertAudioFile that transcodes every input, .wav files included
ConvertStartAlwaysTranscodes(p, f, plat, ar) ==
    LET input == PathStr(p)
        paths == getFFmpegPaths(plat, ar, f)
        isWav == ToLowerCase(extname(p)) = ".wav"
        idle == [step |-> "none", isWav |-> isWav, input |-> input,
                 ffmpegPath |-> paths.ffmpegPath, ffprobePath |-> paths.ffprobePath,
                 probed |-> "", source |-> ""]
    IN  IF paths.throws # ""
        THEN [events |-> paths.events, conv |-> idle,
              promise |-> Resolved(ConvertFailure(input, <<paths.throws>>))]
        ELSE IF ~paths.found
        THEN [events |-> paths.events, conv |-> idle,
              promise |-> Resolved(ConvertFailure(input,
                              <<"FFmpeg or ffprobe is not installed.">>))]
        ELSE IF ~existsSync(f, input)
        THEN [events |-> paths.events \o <<Ev("existsSync", input)>>, conv |-> idle,
              promise |-> Resolved(ConvertFailure(input,
                              <<"Input file '", input, "' not found.">>))]
        ELSE [events |-> paths.events \o <<Ev("existsSync", input),
                                           Ev("spawn", paths.ffmpegPath)>>,
              conv |-> [idle EXCEPT !.step = "towav", !.source = input],
              promise |-> Pending]

\* the synchronous start of convertAudioFile(inputFilePath), up to its first
\* await or to the value its catch block returns
ConvertStart(p, f, plat, ar) ==
    LET input == PathStr(p)
        paths == getFFmpegPaths(plat, ar, f)
        isWav == ToLowerCase(extname(p)) = ".wav"
        idle == [step |-> "none", isWav |-> isWav, input |-> input,
                 ffmpegPath |-> paths.ffmpegPath, ffprobePath |-> paths.ffprobePath,
                 probed |-> "", source |-> ""]
    IN  IF paths.throws # ""
        THEN [events |-> paths.events, conv |-> idle,
              promise |-> Resolved(ConvertFailure(input, <<paths.throws>>))]
        ELSE IF ~paths.found
        THEN [events |-> paths.events, conv |-> idle,
              promise |-> Resolved(ConvertFailure(input,
                              <<"FFmpeg or ffprobe is not installed.">>))]
        ELSE IF ~existsSync(f, input)
        THEN [events |-> paths.events \o <<Ev("existsSync", input)>>, conv |-> idle,
              promise |-> Resolved(ConvertFailure(input,
                              <<"Input file '", input, "' not found.">>))]
        ELSE IF isWav
        THEN [events |-> paths.events \o <<Ev("existsSync", input),
                                           Ev("spawn", paths.ffprobePath)>>,
              conv |-> [idle EXCEPT !.step = "probe", !.probed = input],
              promise |-> Pending]
        ELSE [events |-> paths.events \o <<Ev("existsSync", input),
                                           Ev("spawn", paths.ffmpegPath)>>,
              conv |-> [idle EXCEPT !.step = "towav", !.source = input],
              promise |-> Pending]

TempWavPath(input) == input \o ".TEMP.wav"
OutputWavPath(input) == input \o ".OUTPUT.wav"

(***************************************************************************)
(* Audio2TextJS.js                                                         *)
(***************************************************************************)
\* getWhisperPath: kind is "path", "undefined" (no return statement is
\* reached) or "throws"
getWhisperPath(plat, ar) ==
    IF plat = "win32" THEN [kind |-> "path", path |-> BinPath(plat, ar, "whisper")]
    ELSE IF plat \in {"linux", "android"}
         THEN IF ar \in {"x64", "arm64", "arm"}
              THEN [kind |-> "path", path |-> BinPath(plat, ar, "whisper")]
              ELSE [kind |-> "undefined", path |-> ""]
         ELSE [kind |-> "throws", path |-> ""]

\* `${resultDownModel.modelFile}`
ModelFileStr(v) == IF "modelFile" \in DOMAIN v THEN v.modelFile ELSE "undefined"

\* `${CWF.output}`
OutputStr(v) == IF "output" \in DOMAIN v THEN v.output ELSE "undefined"

\* a runWhisper that does not look at the result of the model step
ModelStepNeverFails(v) == FALSE
\* if (!resultDownModel.success) return ...
ModelStepFailed(v) == ~v.success

\* a runWhisper that does not look at the result of the normalisation
NormalizeNeverFails(v) == FALSE
\* if (!CWF.success) return ...
NormalizeFailed(v) == ~v.success

\* the result returned when the model step reports a failure
ModelFailureResult(m) ==
    [success |-> FALSE, message |-> <<"Failed to download ggml model ", m>>]

\* a failure result that drops the captured stderr text
EngineFailureResultNoStderr(code, err) ==
    [success |-> FALSE,
     message |-> <<"Whisper process failed with code ", ToString(code), ". stderr: ">>]

\* the result of the close handler for a non-zero exit code
EngineFailureResult(code, err) ==
    [success |-> FALSE,
     message |-> <<"Whisper process failed with code ", ToString(code),
                   ". stderr: ">> \o err]

\* artifact names that keep only the text before the first '.' of the path
ArtifactPathOfStem(output, f) == "stem" \o "." \o f

\* `${CWF.output}.json` and its siblings
ArtifactPath(output, f) == output \o "." \o f

\* the position of the first format requested at or after position i of
\* Formats; Len(Formats) + 1 when there is none
RECURSIVE NextRequested(_, _)
NextRequested(opts, i) ==
    IF i > Len(Formats) THEN i
    ELSE IF Requested(opts, Formats[i]) THEN i
         ELSE NextRequested(opts, i + 1)

\* whether the try block for format f completes: the file is read and, for
\* JSON, parsed
ReadSucceeds(f, file, fmt) ==
    existsSync(f, file) /\ (fmt = "json" => f[file].ok)

\* the entry pushed onto outputFiles
OutputEntry(f, file, fmt) == [type |-> fmt, data |-> f[file], outputFile |-> file]

\* a catch block that reports the call as successful
ReadFailureSwallowed(f, file, fmt) ==
    [success |-> TRUE, message |-> <<"Whisper process completed successfully.">>,
     output |-> <<>>]

\* the result returned from the catch block for format fmt
ReadFailureResult(f, file, fmt) ==
    [success |-> FALSE,
     message |-> (CASE fmt = "json" -> <<"Failed to read or parse JSON output file: ">>
                    [] fmt = "txt" -> <<"Failed to read TXT output file: ">>
                    [] OTHER -> <<"Failed to read CSV output file: ">>)
                 \o (IF existsSync(f, file)
                     THEN <<"Unexpected token in JSON">>
                     ELSE <<"ENOENT: no such file or directory, open '", file, "'">>)]

SuccessResult(files) ==
    [success |-> TRUE, message |-> <<"Whisper process completed successfully.">>,
     output |-> files]

(***************************************************************************)
(* fetchBinFiles.js: the manifest and the files it resolves to.            *)
(***************************************************************************)
\* path.join(__dirname, 'bin'), the destDir postinstall.js passes
destDir == "bin"

RECURSIVE FilenameStr(_)
\* a file name is kept as the list of its parts; this is the string
FilenameStr(parts) ==
    IF parts = <<>> THEN "" ELSE Head(parts) \o FilenameStr(Tail(parts))
\* file.filename.includes(program): program is one of the parts of the name
Includes(parts, program) == \E i \in 1..Len(parts) : parts[i] = program

\* path.join(destDir, file.path) and path.join(destDir, path.dirname(file.path))
DestPath(dir, p) == dir \o "/" \o p[1] \o "/" \o p[2]
SubDir(dir, p) == dir \o "/" \o p[1]

\* the records of binFiles.json: a dependency, and a file with its dependencies
Dependency(parts, sub) ==
    [filename |-> parts, path |-> <<sub, FilenameStr(parts)>>,
     url |-> "https://host/" \o sub \o "/" \o FilenameStr(parts)]
Entry(parts, sub, architecture, deps) ==
    [filename |-> parts, path |-> <<sub, FilenameStr(parts)>>,
     url |-> "https://host/" \o sub \o "/" \o FilenameStr(parts),
     architecture |-> architecture, dependencies |-> deps]

\* a manifest: per platform the executables, the engine with a shared
\* library it depends on; on Linux the engine is there for both
\* architectures and the converter for x64 only
binFiles ==
    [win32 |-> << Entry(<<"whisper", ".exe">>, "win32", "",
                        <<Dependency(<<"SDL2", ".dll">>, "win32")>>),
                  Entry(<<"ffmpeg", ".exe">>, "win32", "", <<>>) >>,
     linux |-> << Entry(<<"whisper">>, "linux", "x64",
                        <<Dependency(<<"lib", "whisper", ".so">>, "linux")>>),
                  Entry(<<"whisper", "-aarch64">>, "linux", "arm64",
                        <<Dependency(<<"lib", "whisper", "-aarch64", ".so">>, "linux")>>),
                  Entry(<<"ffmpeg">>, "linux", "x64", <<>>) >>]
Manifests == { binFiles }

RECURSIVE ConcatAll(_)
\* programFiles.push(...): the lists of a list, one after the other
ConcatAll(lists) ==
    IF lists = <<>> THEN <<>> ELSE Head(lists) \o ConcatAll(Tail(lists))

\* getFilePaths: `throws` is the message of the Error thrown, <<>> if none
getFilePaths(data, os, ar, programs) ==
    IF programs = <<>>
    THEN [throws |-> <<"Invalid input: programs should be a non-empty array of program names.">>,
          files |-> <<>>]
    ELSE IF os \notin DOMAIN data
    THEN [throws |-> <<"Cannot read properties of undefined (reading 'filter')">>,
          files |-> <<>>]
    ELSE LET files == data[os]
             ForProgram(program) ==
                 SelectSeq(files, LAMBDA file : Includes(file.filename, program))
             unknown == { i \in 1..Len(programs) : ForProgram(programs[i]) = <<>> }
             programFiles == ConcatAll([i \in 1..Len(programs) |-> ForProgram(programs[i])])
             SomeProgram(file) ==
                 \E i \in 1..Len(programs) : Includes(file.filename, programs[i])
         IN  IF unknown # {}
             THEN [throws |-> <<"No files found for program \"",
                                programs[CHOOSE i \in unknown : \A j \in unknown : i <= j],
                                "\" on ", os, " (", ar, ")">>,
                   files |-> <<>>]
             ELSE [throws |-> <<>>,
                   files |->
                      IF os = "win32"
                      THEN SelectSeq(programFiles, SomeProgram)
                      ELSE IF os = "linux" /\ ar \in {"x64", "arm64"}
                      THEN SelectSeq(programFiles,
                                     LAMBDA file : SomeProgram(file) /\ file.architecture = ar)
                      ELSE programFiles]

\* the primary files in the order the first loop takes them
TodoFiles(files) ==
    [i \in 1..Len(files) |->
        [kind |-> "file", filename |-> FilenameStr(files[i].filename),
         url |-> files[i].url, dest |-> DestPath(destDir, files[i].path),
         dir |-> SubDir(destDir, files[i].path)]]

\* files.find(file => file.filename === `${program}.exe` || file.filename === program):
\* the list holding the file found, empty when there is none
ProgramFile(files, program) ==
    LET found == SelectSeq(files, LAMBDA file :
                     \/ FilenameStr(file.filename) = program \o ".exe"
                     \/ FilenameStr(file.filename) = program)
    IN  IF found = <<>> THEN <<>> ELSE <<Head(found)>>

\* the dependencies in the order the second loop takes them
TodoDependencies(files, programs) ==
    ConcatAll([i \in 1..Len(programs) |->
        LET pf == ProgramFile(files, programs[i])
        IN  IF pf = <<>> THEN <<>>
            ELSE [d \in 1..Len(pf[1].dependencies) |->
                    [kind |-> "dep",
                     filename |-> FilenameStr(pf[1].dependencies[d].filename),
                     url |-> pf[1].dependencies[d].url,
                     dest |-> DestPath(destDir, pf[1].dependencies[d].path),
                     dir |-> SubDir(destDir, pf[1].dependencies[d].path)]]])

\* const result = { success: true, files: {...}, dependencies: {...} }
EmptyResult ==
    [success |-> TRUE,
     files |-> [success |-> <<>>, failed |-> <<>>],
     dependencies |-> [success |-> <<>>, failed |-> <<>>]]

\* result.files.success.push(...) / result.dependencies.success.push(...)
PushSuccess(result, e, status) ==
    LET item == [filename |-> e.filename, path |-> e.dest, status |-> status]
    IN  IF e.kind = "file"
        THEN [result EXCEPT !.files.success = Append(@, item)]
        ELSE [result EXCEPT !.dependencies.success = Append(@, item)]

\* the catch block of a download: push to the failed list, success = false
PushFailed(result, e, message) ==
    LET item == [filename |-> e.filename, url |-> e.url, error |-> message]
    IN  IF e.kind = "file"
        THEN [result EXCEPT !.files.failed = Append(@, item), !.success = FALSE]
        ELSE [result EXCEPT !.dependencies.failed = Append(@, item), !.success = FALSE]

\* an exists-or-download step that never finds the file in place
NeverInstalled(f, dest) == FALSE

\* fs.existsSync(fileFullPath) / fs.existsSync(dependencyPath)
AlreadyInstalled(f, dest) == existsSync(f, dest)

\* a file being downloaded; ok is FALSE until the transfer has finished
Download(ok) == [kind |-> "bin", rate |-> 0, ok |-> ok]

RECURSIVE Advance(_, _, _, _, _)
\* The two loops of fetchBinFiles from entry k on, up to the next download
\* that has to be awaited (download is TRUE) or to the end of both loops.
\* processed notes, for each entry reached, whether its file was in place
\* and whether a request was made for it.
Advance(todo, k, f, result, processed) ==
    IF k > Len(todo)
    THEN [k |-> k, fs |-> f, result |-> result, processed |-> processed,
          download |-> FALSE]
    ELSE LET e == todo[k]
             f1 == IF e.kind = "file" /\ ~existsSync(f, e.dir)
                   THEN WriteFile(f, e.dir, Dir) ELSE f
             note == [kind |-> e.kind, dest |-> e.dest,
                      existed |-> existsSync(f1, e.dest)]
         IN  IF AlreadyInstalled(f1, e.dest)
             THEN Advance(todo, k + 1, f1, PushSuccess(result, e, "exists"),
                          Append(processed, note @@ [requested |-> FALSE]))
             ELSE [k |-> k, fs |-> f1, result |-> result,
                   processed |-> Append(processed, note @@ [requested |-> TRUE]),
                   download |-> TRUE]

\* setLDLibraryPath(pathToAdd): the environment and ~/.bashrc after the
\* call.  A search path is the list of its entries ('' is the empty list);
\* bashrc.export is the value of the first export of LD_LIBRARY_PATH in the
\* file, as a list of at most one search path.  sourceWorks tells whether
\* the shell execSync runs knows `source`; if not, execSync throws.
setLDLibraryPath(e, pathToAdd, sourceWorks) ==
    LET newPath == <<pathToAdd>> \o (IF e.LD = <<>> THEN <<"">> ELSE e.LD)
        Caught(x) == [x EXCEPT !.LD = newPath]
    IN  IF ~e.HOME THEN Caught(e)
        ELSE IF e.bashrc.export # <<>>
        THEN IF \E i \in 1..Len(e.bashrc.export[1]) : e.bashrc.export[1][i] = pathToAdd
             THEN e
             ELSE LET written == [e EXCEPT !.bashrc.export = <<newPath>>]
                  IN  IF sourceWorks THEN written ELSE Caught(written)
        ELSE LET appended == [e EXCEPT !.bashrc.exists = TRUE,
                                       !.bashrc.export = <<newPath>>]
             IN  IF sourceWorks THEN appended ELSE Caught(appended)

\* an end of fetchBinFiles that reports success whatever failed
FinishIgnoringFailures(todo, f, result, os, e, sourceWorks) ==
    [result |-> [result EXCEPT !.success = TRUE],
     env |-> IF os \in {"linux", "android"}
             THEN setLDLibraryPath(e, destDir \o "/linux", sourceWorks)
             ELSE e]

\* an end of fetchBinFiles whose success flag looks at the primary files only
FinishIgnoringDependencies(todo, f, result, os, e, sourceWorks) ==
    [result |-> [result EXCEPT !.success =
                    /\ \A i \in 1..Len(todo) :
                          todo[i].kind = "file" => existsSync(f, todo[i].dest)
                    /\ result.files.failed = <<>>],
     env |-> IF os \in {"linux", "android"}
             THEN setLDLibraryPath(e, destDir \o "/linux", sourceWorks)
             ELSE e]

\* the end of fetchBinFiles after both loops: the success flag, the search
\* path on Linux and Android, and the value returned
Finish(todo, f, result, os, e, sourceWorks) ==
    LET allFilesExist ==
            \A i \in 1..Len(todo) : todo[i].kind = "file" => existsSync(f, todo[i].dest)
    IN  [result |-> [result EXCEPT !.success =
                        /\ allFilesExist
                        /\ result.files.failed = <<>>
                        /\ result.dependencies.failed = <<>>],
         env |-> IF os \in {"linux", "android"}
                 THEN setLDLibraryPath(e, destDir \o "/linux", sourceWorks)
                 ELSE e]

\* the locals of fetchBinFiles while no call is running
IdleFetch ==
    [pc |-> "idle", n |-> 0, programs |-> <<>>, todo |-> <<>>, k |-> 0,
     result |-> EmptyResult, processed |-> <<>>]

\* process.env and ~/.bashrc before any provisioning
Environments ==
    { [LD |-> <<>>, HOME |-> TRUE,
       bashrc |-> [exists |-> FALSE, export |-> <<>>, other |-> ""]],
      [LD |-> <<"/opt/lib">>, HOME |-> TRUE,
       bashrc |-> [exists |-> TRUE, export |-> << <<"/usr/local/lib">> >>,
                   other |-> "alias ll='ls -l'"]],
      [LD |-> <<>>, HOME |-> TRUE,
       bashrc |-> [exists |-> TRUE, export |-> << <<"bin/linux", "/usr/local/lib">> >>,
                   other |-> "alias ll='ls -l'"]],
      [LD |-> <<>>, HOME |-> FALSE,
       bashrc |-> [exists |-> FALSE, export |-> <<>>, other |-> ""]] }

\* no provisioning is going on
NoProvisioning ==
    /\ manifest = binFiles
    /\ fb = IdleFetch
    /\ returned = [last |-> <<>>, before |-> <<>>]
    /\ env \in { e \in Environments : e.LD = <<>> /\ ~e.bashrc.exists /\ e.HOME }
    /\ writers = {}

(***************************************************************************)
(* Initial states: a host, a cache of models, some audio files, and an     *)
(* Audio2TextJS instance constructed with one of the option objects.       *)
(***************************************************************************)
Programs == {"ffmpeg", "ffprobe", "whisper"}

Hosts ==
    { [platform |-> "win32", arch |-> "x64", installed |-> Programs],
      [platform |-> "linux", arch |-> "x64", installed |-> Programs],
      [platform |-> "linux", arch |-> "x64", installed |-> {"ffmpeg", "ffprobe"}],
      [platform |-> "android", arch |-> "arm64", installed |-> {"ffmpeg", "whisper"}],
      [platform |-> "linux", arch |-> "ia32", installed |-> {}],
      [platform |-> "darwin", arch |-> "arm64", installed |-> {}] }

\* the option objects the pipeline is constructed with
PipelineOptions ==
    { [k \in S |-> JsBool(TRUE)] : S \in SUBSET {"outputJson", "outputTxt", "outputCsv"} }
      \cup { [outputAll |-> JsBool(TRUE)],
             [outputTxt |-> JsBool(TRUE), outputAll |-> JsBool(TRUE)],
             [outputJson |-> JsBool(TRUE), translate |-> JsBool(TRUE)],
             [outputJson |-> JsBool(FALSE), maxLen |-> JsStr("")] }

\* the audio files on disk, each <<stem, extension>> with its sample rate
AudioFiles ==
    { [path |-> <<"a", ".wav">>, rate |-> 16000],
      [path |-> <<"b", ".mp3">>, rate |-> 44100],
      [path |-> <<"c", ".WAV">>, rate |-> 44100],
      [path |-> <<"d", ".ogg">>, rate |-> 16000] }

\* the arguments runWhisper is called with
InputFiles == { a.path : a \in AudioFiles } \cup { <<"missing", ".wav">> }
ModelArgs == {"bogus", "all"} \cup { models[i] : i \in 1..(MaxDownloaders + 1) }
Languages == {"auto", ""}

\* the models directory: absent, or holding every model but some of the first
CacheStates ==
    { <<>> } \cup
    { [p \in {modelsPath} \cup { ModelFile(m) : m \in ModelSet \ missing }
         |-> IF p = modelsPath THEN Dir ELSE ModelData(TRUE)]
      : missing \in SUBSET { models[i] : i \in 1..MaxDownloaders } }

HostFiles(h) == [p \in { BinPath(h.platform, h.arch, prog) : prog \in h.installed } |-> Binary]
AudioOnDisk == [p \in { PathStr(a.path) : a \in AudioFiles } |->
                  Audio((CHOOSE a \in AudioFiles : PathStr(a.path) = p).rate)]

NoConv == [step |-> "none", isWav |-> FALSE, input |-> "", ffmpegPath |-> "",
           ffprobePath |-> "", probed |-> "", source |-> ""]

\* the locals of a runWhisper invocation that has not been called
IdleInvocation ==
    [pc |-> "ready", input |-> <<"", "">>, model |-> "", pos |-> 0, dm |-> Pending,
     conv |-> NoConv, CWF |-> Pending, startedOn |-> <<>>, promise |-> Pending]
\* the callers of two invocations made at once
Callers == {1, 2}
\* no two invocations are running at once
NoConcurrency ==
    /\ inv = [c \in Callers |-> IdleInvocation]
    /\ touched = {}

Init ==
    /\ \E h \in Hosts, cache \in CacheStates :
          /\ platform = h.platform
          /\ arch = h.arch
          /\ fs = HostFiles(h) @@ cache @@ AudioOnDisk
    /\ \E u \in PipelineOptions : options = MergeOptions(u)
    /\ pc = "ready"
    /\ inputFile = <<"", "">>
    /\ model = ""
    /\ language = ""
    /\ downloaders = <<>>
    /\ calls = <<>>
    /\ resultDownModel = Pending
    /\ conv = NoConv
    /\ CWF = Pending
    /\ args = <<>>
    /\ engine = "none"
    /\ stderr = <<>>
    /\ outputFiles = <<>>
    /\ promise = Pending
    /\ uncaught = FALSE
    /\ log = <<>>
    /\ NoProvisioning
    /\ NoConcurrency

(***************************************************************************)
(* runWhisper, first turn: the call, up to `await downloadModel(model)`.   *)
(***************************************************************************)
runWhisper(i, m, l) ==
    /\ pc = "ready"
    /\ ~uncaught
    /\ LET d == downloadModel(m, fs, platform)
       IN  /\ Cardinality(d.spawned) <= MaxDownloaders
           /\ fs' = d.fs
           /\ downloaders' = [k \in d.spawned |-> "spawned"]
           /\ calls' = d.calls
           /\ resultDownModel' = d.promise
           /\ log' = <<Ev("call", "downloadModel")>> \o d.events
    /\ inputFile' = i
    /\ model' = m
    /\ language' = l
    /\ pc' = "await_dm"
    /\ UNCHANGED <<concVars, fetchVars, platform, arch, options, conv, CWF, args, engine, stderr,
                   outputFiles, promise, uncaught>>

(***************************************************************************)
(* The downloader subprocess (wget or curl) of one model.                  *)
(***************************************************************************)
\* the downloader has opened its output file and is writing to it
DownloaderWrites(m) ==
    /\ m \in DOMAIN downloaders
    /\ downloaders[m] = "spawned"
    /\ downloaders' = [downloaders EXCEPT ![m] = "running"]
    /\ fs' = WriteFile(fs, ModelFile(m), ModelData(FALSE))
    /\ UNCHANGED <<concVars, fetchVars, platform, arch, options, pc, inputFile, model, language, calls,
                   resultDownModel, conv, CWF, args, engine, stderr, outputFiles,
                   promise, uncaught, log>>

\* downloader.on('close', code => ...)
DownloaderClose(m, code) ==
    /\ ~uncaught
    /\ m \in DOMAIN downloaders
    /\ \/ downloaders[m] = "running"
       \/ downloaders[m] = "spawned" /\ code # 0
    /\ downloaders' = [downloaders EXCEPT ![m] = "closed"]
    /\ fs' = IF code = 0 THEN WriteFile(fs, ModelFile(m), ModelData(TRUE)) ELSE fs
    /\ LET cs == [calls EXCEPT ![m] = Settle(calls[m], DownloaderOutcome(m, code))]
       IN  /\ calls' = cs
           /\ resultDownModel' = TopPromise(model, resultDownModel, cs, m)
    /\ UNCHANGED <<concVars, fetchVars, platform, arch, options, pc, inputFile, model, language, conv,
                   CWF, args, engine, stderr, outputFiles, promise, uncaught, log>>

\* The downloader cannot be started: the ChildProcess emits 'error', for
\* which downloadModel registers no listener, so the event is thrown as an
\* uncaught exception.
DownloaderError(m) ==
    /\ ~uncaught
    /\ m \in DOMAIN downloaders
    /\ downloaders[m] = "spawned"
    /\ downloaders' = [downloaders EXCEPT ![m] = "error"]
    /\ uncaught' = TRUE
    /\ UNCHANGED <<concVars, fetchVars, platform, arch, fs, options, pc, inputFile, model, language,
                   calls, resultDownModel, conv, CWF, args, engine, stderr,
                   outputFiles, promise, log>>

(***************************************************************************)
(* runWhisper, second turn: the continuation of `await downloadModel`.     *)
(***************************************************************************)
AfterDownloadModel ==
    /\ pc = "await_dm"
    /\ ~uncaught
    /\ Settled(resultDownModel)
    /\ IF ~Fulfilled(resultDownModel)
       THEN \* the await throws: the async function's promise is rejected
            /\ promise' = Settle(promise, Rejected(resultDownModel.value))
            /\ log' = log \o <<StepEvent("downloadModel", resultDownModel)>>
            /\ pc' = "done"
            /\ UNCHANGED <<conv, CWF>>
       ELSE IF ModelStepFailed(resultDownModel.value)
       THEN /\ promise' = Settle(promise, Resolved(ModelFailureResult(model)))
            /\ log' = log \o <<StepEvent("downloadModel", resultDownModel)>>
            /\ pc' = "done"
            /\ UNCHANGED <<conv, CWF>>
       ELSE LET c == ConvertStart(inputFile, fs, platform, arch)
            IN  /\ conv' = c.conv
                /\ CWF' = c.promise
                /\ log' = log \o <<StepEvent("downloadModel", resultDownModel),
                                   Ev("call", "convertAudioFile")>> \o c.events
                /\ pc' = "await_conv"
                /\ UNCHANGED promise
    /\ UNCHANGED <<concVars, fetchVars, platform, arch, fs, options, inputFile, model, language,
                   downloaders, calls, resultDownModel, args, engine, stderr,
                   outputFiles, uncaught>>

(***************************************************************************)
(* convertAudioFile: the handlers of its subprocesses, each followed by    *)
(* the continuation of the await that was waiting for it.                  *)
(***************************************************************************)
ExitCodes == {0, 1}

\* the call convertSampleRate(source, `${input}.OUTPUT.wav`, ...): spawn
StartResample(c, source) ==
    [c EXCEPT !.step = "resample", !.source = source]

\* getSampleRate: subprocess.on('close', ...)
getSampleRateClose(code) ==
    /\ pc = "await_conv"
    /\ ~uncaught
    /\ conv.step = "probe"
    /\ IF code # 0
       THEN /\ CWF' = Settle(CWF, Resolved(ConvertFailure(conv.input,
                          <<"Failed to get sample rate: ", "stderr">>)))
            /\ conv' = [conv EXCEPT !.step = "none"]
            /\ UNCHANGED log
       ELSE IF RateOf(fs, conv.probed) = DesiredSampleRate
       THEN /\ CWF' = Settle(CWF, Resolved(
                        [success |-> TRUE,
                         message |-> IF conv.isWav
                                     THEN <<"Input file '", conv.input,
                                            "' is already at the desired sample rate.">>
                                     ELSE <<"Input file '", conv.input,
                                            "' converted to WAV format with the desired sample rate.">>,
                         output |-> conv.probed]))
            /\ conv' = [conv EXCEPT !.step = "none"]
            /\ UNCHANGED log
       ELSE /\ conv' = StartResample(conv, conv.probed)
            /\ log' = log \o <<Ev("spawn", conv.ffmpegPath)>>
            /\ UNCHANGED CWF
    /\ UNCHANGED <<concVars, fetchVars, platform, arch, fs, options, pc, inputFile, model, language,
                   downloaders, calls, resultDownModel, args, engine, stderr,
                   outputFiles, promise, uncaught>>

\* convertToWav: subprocess.on('close', ...); a failed run may leave a
\* partly written temporary file behind
convertToWavClose(code, partial) ==
    /\ pc = "await_conv"
    /\ ~uncaught
    /\ conv.step = "towav"
    /\ IF code # 0
       THEN /\ CWF' = Settle(CWF, Resolved(ConvertFailure(conv.input,
                          <<"Failed to convert to WAV: ", "stderr">>)))
            /\ conv' = [conv EXCEPT !.step = "none"]
            /\ fs' = IF partial
                     THEN WriteFile(fs, TempWavPath(conv.input), Audio(0))
                     ELSE fs
            /\ UNCHANGED log
       ELSE /\ ~partial
            /\ fs' = WriteFile(fs, TempWavPath(conv.input),
                               Audio(RateOf(fs, conv.input)))
            /\ conv' = [conv EXCEPT !.step = "probe",
                                    !.probed = TempWavPath(conv.input)]
            /\ log' = log \o <<Ev("spawn", conv.ffprobePath)>>
            /\ UNCHANGED CWF
    /\ UNCHANGED <<concVars, fetchVars, platform, arch, options, pc, inputFile, model, language,
                   downloaders, calls, resultDownModel, args, engine, stderr,
                   outputFiles, promise, uncaught>>

\* convertSampleRate: subprocess.on('close', ...), then the rest of
\* convertAudioFile (the unlinkSync of the temporary file on the non-WAV path)
convertSampleRateClose(code, partial) ==
    /\ pc = "await_conv"
    /\ ~uncaught
    /\ conv.step = "resample"
    /\ IF code # 0
       THEN /\ CWF' = Settle(CWF, Resolved(ConvertFailure(conv.input,
                          <<"Failed to convert '", conv.source,
                            "' to the desired sample rate: ", "stderr">>)))
            /\ fs' = IF partial
                     THEN WriteFile(fs, OutputWavPath(conv.input), Audio(0))
                     ELSE fs
            /\ UNCHANGED log
       ELSE /\ ~partial
            /\ CWF' = Settle(CWF, Resolved(
                        [success |-> TRUE,
                         message |-> <<"File '", conv.source,
                                       "' successfully converted to '",
                                       OutputWavPath(conv.input), "' with sample rate ",
                                       ToString(DesiredSampleRate), " Hz.">>,
                         output |-> OutputWavPath(conv.input)]))
            /\ LET written == WriteFile(fs, OutputWavPath(conv.input),
                                        Audio(DesiredSampleRate))
               IN  IF conv.isWav
                   THEN fs' = written /\ UNCHANGED log
                   ELSE /\ fs' = Unlink(written, TempWavPath(conv.input))
                        /\ log' = log \o <<Ev("unlinkSync", TempWavPath(conv.input))>>
    /\ conv' = [conv EXCEPT !.step = "none"]
    /\ UNCHANGED <<concVars, fetchVars, platform, arch, options, pc, inputFile, model, language,
                   downloaders, calls, resultDownModel, args, engine, stderr,
                   outputFiles, promise, uncaught>>

\* subprocess.on('error', ...) of getSampleRate, convertToWav and
\* convertSampleRate: the promise is rejected with the spawn error
ConvertChildError ==
    /\ pc = "await_conv"
    /\ ~uncaught
    /\ conv.step \in {"probe", "towav", "resample"}
    /\ CWF' = Settle(CWF, Resolved(ConvertFailure(conv.input, <<"spawn error">>)))
    /\ conv' = [conv EXCEPT !.step = "none"]
    /\ UNCHANGED <<concVars, fetchVars, platform, arch, fs, options, pc, inputFile, model, language,
                   downloaders, calls, resultDownModel, args, engine, stderr,
                   outputFiles, promise, uncaught, log>>

(***************************************************************************)
(* runWhisper, third turn: the continuation of `await convertAudioFile`,   *)
(* which builds the argument list and spawns the engine.                   *)
(***************************************************************************)
AfterConvert ==
    /\ pc = "await_conv"
    /\ ~uncaught
    /\ Settled(CWF)
    /\ IF NormalizeFailed(CWF.value)
       THEN /\ promise' = Settle(promise,
                            Resolved([success |-> FALSE, message |-> CWF.value.message]))
            /\ log' = log \o <<StepEvent("convertAudioFile", CWF)>>
            /\ pc' = "done"
            /\ UNCHANGED <<args, engine>>
       ELSE LET w == getWhisperPath(platform, arch)
            IN  /\ args' = BuildArgs(options, ModelFileStr(resultDownModel.value),
                                     language, OutputStr(CWF.value))
                /\ IF w.kind = "path"
                   THEN /\ engine' = "spawned"
                        /\ log' = log \o <<StepEvent("convertAudioFile", CWF),
                                           Ev("spawn", w.path)>>
                        /\ pc' = "engine"
                        /\ UNCHANGED promise
                   ELSE \* getWhisperPath throws, or spawn(undefined) throws
                        /\ promise' = Settle(promise, Rejected(
                                        [message |-> IF w.kind = "throws"
                                                     THEN <<"Unsupported operating system.">>
                                                     ELSE <<"The \"file\" argument must be of type string.">>]))
                        /\ log' = log \o <<StepEvent("convertAudioFile", CWF)>>
                        /\ pc' = "done"
                        /\ UNCHANGED engine
    /\ UNCHANGED <<concVars, fetchVars, platform, arch, fs, options, inputFile, model, language,
                   downloaders, calls, resultDownModel, conv, CWF, stderr,
                   outputFiles, uncaught>>

(***************************************************************************)
(* The engine subprocess and the handlers runWhisper registers on it.      *)
(***************************************************************************)
StderrChunks == {"whisper: warning"}

\* an engine that is given up on while it is still running
EngineStderrTimesOut(chunk) ==
    /\ pc = "engine"
    /\ ~uncaught
    /\ engine \in {"spawned", "running"}
    /\ existsSync(fs, getWhisperPath(platform, arch).path)
    /\ Len(stderr) < MaxStderrChunks
    /\ stderr' = Append(stderr, chunk)
    /\ engine' = "running"
    /\ promise' = Settle(promise, Resolved([success |-> FALSE, message |-> <<"timed out">>]))
    /\ UNCHANGED <<concVars, fetchVars, platform, arch, fs, options, pc, inputFile, model,
                   language, downloaders, calls, resultDownModel, conv, CWF, args,
                   outputFiles, uncaught, log>>

\* subprocess.stderr.on('data', ...)
EngineStderr(chunk) ==
    /\ pc = "engine"
    /\ ~uncaught
    /\ engine \in {"spawned", "running"}
    /\ existsSync(fs, getWhisperPath(platform, arch).path)
    /\ Len(stderr) < MaxStderrChunks
    /\ stderr' = Append(stderr, chunk)
    /\ engine' = "running"
    /\ UNCHANGED <<concVars, fetchVars, platform, arch, fs, options, pc, inputFile, model, language,
                   downloaders, calls, resultDownModel, conv, CWF, args,
                   outputFiles, promise, uncaught, log>>

\* subprocess.on('error', ...): the engine could not be started
EngineError ==
    /\ pc = "engine"
    /\ ~uncaught
    /\ engine = "spawned"
    /\ promise' = Settle(promise, Rejected([message |-> <<"spawn error">>]))
    /\ engine' = "errored"
    /\ log' = log \o <<Ev("error", "engine")>>
    /\ UNCHANGED <<concVars, fetchVars, platform, arch, fs, options, pc, inputFile, model, language,
                   downloaders, calls, resultDownModel, conv, CWF, args, stderr,
                   outputFiles, uncaught>>

\* the position in Formats the close handler reads next, as a value of pc
ReadPc(i) == IF i > Len(Formats) THEN "done" ELSE "read_" \o Formats[i]

\* the artifacts an engine run may leave next to its input: any of the
\* formats its command line asks for, the JSON one possibly malformed
EngineWrites(f, output, wrote, jsonOk) ==
    [p \in { ArtifactPath(output, fmt) : fmt \in wrote } |->
        Artifact(p # ArtifactPath(output, "json") \/ jsonOk)] @@ f

\* subprocess.on('close', async (code) => ...), up to its first await.
\* After a failed spawn Node emits 'close' with the negative errno.
EngineClose(code, wrote, jsonOk) ==
    /\ pc = "engine"
    /\ ~uncaught
    /\ \/ /\ engine \in {"spawned", "running"}
          /\ existsSync(fs, getWhisperPath(platform, arch).path)
          /\ code \in ExitCodes
       \/ engine = "errored" /\ code = -2
    /\ wrote \subseteq { Formats[i] : i \in { j \in 1..Len(Formats) :
                                               FormatFlag(Formats[j]) \in
                                                 { args[k] : k \in 1..Len(args) } } }
    /\ (code # 0 => wrote = {})
    /\ ("json" \notin wrote => jsonOk)
    /\ engine' = "closed"
    /\ fs' = EngineWrites(fs, OutputStr(CWF.value), wrote, jsonOk)
    /\ IF code = 0
       THEN LET first == NextRequested(options, 1)
            IN  /\ pc' = ReadPc(first)
                /\ promise' = IF first > Len(Formats)
                              THEN Settle(promise, Resolved(SuccessResult(<<>>)))
                              ELSE promise
                /\ log' = log \o <<Ev("close", ToString(code))>>
       ELSE /\ pc' = "done"
            /\ promise' = Settle(promise, Resolved(EngineFailureResult(code, stderr)))
            /\ log' = log \o <<Ev("close", ToString(code)), Ev("failed", "engine")>>
    /\ outputFiles' = <<>>
    /\ UNCHANGED <<concVars, fetchVars, platform, arch, options, inputFile, model, language,
                   downloaders, calls, resultDownModel, conv, CWF, args, stderr,
                   uncaught>>

\* The continuation of `await fs.readFile(...)` for the format at position
\* i: the rest of its try block or its catch block, then the handler up to
\* the next await or to its final resolve.
ReadArtifact(i) ==
    /\ pc = ReadPc(i)
    /\ i \in 1..Len(Formats)
    /\ ~uncaught
    /\ LET fmt == Formats[i]
           file == ArtifactPath(OutputStr(CWF.value), fmt)
           next == NextRequested(options, i + 1)
       IN  IF ReadSucceeds(fs, file, fmt)
           THEN /\ outputFiles' = Append(outputFiles, OutputEntry(fs, file, fmt))
                /\ log' = log \o <<Ev("readFile", file)>>
                /\ pc' = ReadPc(next)
                /\ promise' = IF next > Len(Formats)
                              THEN Settle(promise, Resolved(SuccessResult(outputFiles')))
                              ELSE promise
           ELSE /\ promise' = Settle(promise, Resolved(ReadFailureResult(fs, file, fmt)))
                /\ log' = log \o <<Ev("readFile", file), Ev("failed", "readFile")>>
                /\ pc' = "done"
                /\ UNCHANGED outputFiles
    /\ UNCHANGED <<concVars, fetchVars, platform, arch, fs, options, inputFile, model, language,
                   downloaders, calls, resultDownModel, conv, CWF, args, engine,
                   stderr, uncaught>>

(***************************************************************************)
(* The pipeline.                                                           *)
(***************************************************************************)
Next ==
    \/ \E i \in InputFiles, m \in ModelArgs, l \in Languages : runWhisper(i, m, l)
    \/ \E m \in ModelSet : DownloaderWrites(m)
    \/ \E m \in ModelSet, code \in ExitCodes : DownloaderClose(m, code)
    \/ \E m \in ModelSet : DownloaderError(m)
    \/ AfterDownloadModel
    \/ \E code \in ExitCodes : getSampleRateClose(code)
    \/ \E code \in ExitCodes, partial \in BOOLEAN : convertToWavClose(code, partial)
    \/ \E code \in ExitCodes, partial \in BOOLEAN : convertSampleRateClose(code, partial)
    \/ ConvertChildError
    \/ AfterConvert
    \/ \E chunk \in StderrChunks : EngineStderr(chunk)
    \/ EngineError
    \/ \E code \in ExitCodes \cup {-2}, wrote \in SUBSET { Formats[i] : i \in 1..Len(Formats) },
          jsonOk \in BOOLEAN : EngineClose(code, wrote, jsonOk)
    \/ \E i \in 1..Len(Formats) : ReadArtifact(i)

Spec == Init /\ [][Next]_vars

(***************************************************************************)
(* Properties of the pipeline.                                             *)
(***************************************************************************)
ConverterPaths ==
    { BinPath(platform, arch, prog) : prog \in {"ffmpeg", "ffprobe"} }
EnginePath == BinPath(platform, arch, "whisper")
LogIndex == 1..Len(log)
\* the log entries that belong to the normalisation step
IsNormalizeEvent(e) ==
    \/ e = Ev("call", "convertAudioFile")
    \/ e.op = "spawn" /\ e.arg \in ConverterPaths
    \/ e.op = "unlinkSync"
IsEngineSpawn(e) == e.op = "spawn" /\ e.arg = EnginePath

\* C1: within one runWhisper invocation the model step has completed with
\* success before anything of the normalisation happens, and both the model
\* step and the normalisation have completed with success, in that order,
\* before the engine is spawned.
C1_StepOrder ==
    /\ \A i \in LogIndex :
          IsNormalizeEvent(log[i]) =>
             \E j \in 1..(i - 1) : log[j] = Ev("ok", "downloadModel")
    /\ \A i \in LogIndex :
          IsEngineSpawn(log[i]) =>
             \E j \in 1..(i - 1), k \in 1..(i - 1) :
                /\ j < k
                /\ log[j] = Ev("ok", "downloadModel")
                /\ log[k] = Ev("ok", "convertAudioFile")
                /\ \A n \in (k + 1)..(i - 1) : ~IsNormalizeEvent(log[n])
    /\ pc \in {"await_conv", "engine", "read_json", "read_txt", "read_csv"} =>
          Fulfilled(resultDownModel) /\ resultDownModel.value.success
    /\ pc \in {"engine", "read_json", "read_txt", "read_csv"} =>
          Fulfilled(CWF) /\ CWF.value.success

\* an invocation that went through all three steps: a model that had to be
\* downloaded, an input that had to be converted, and an engine that ran
C1_Witness ==
    /\ \E i \in LogIndex : log[i].op = "spawn" /\ log[i].arg \in {"wget", "curl"}
    /\ \E i \in LogIndex : log[i].op = "unlinkSync"
    /\ \E i \in LogIndex : IsEngineSpawn(log[i])
    /\ engine = "closed"

\* C2: once a step of runWhisper has failed, nothing more is done for the
\* invocation: the failure is the last entry of the log, the invocation is
\* over with a result that is not a success, and nothing of a later step
\* appears anywhere: no converter, prober or engine after a model failure,
\* no engine after a normalisation failure, no artifact read after an engine
\* failure, and no read after a failed read.
C2_ShortCircuit ==
    /\ \A i \in LogIndex :
          log[i].op = "failed" =>
             /\ i = Len(log)
             /\ pc = "done"
             /\ Settled(promise)
             /\ ~(Fulfilled(promise) /\ promise.value.success)
    /\ (\E i \in LogIndex : log[i] = Ev("failed", "downloadModel")) =>
          \A j \in LogIndex : ~IsNormalizeEvent(log[j]) /\ ~IsEngineSpawn(log[j])
    /\ (\E i \in LogIndex : log[i] = Ev("failed", "convertAudioFile")) =>
          \A j \in LogIndex : ~IsEngineSpawn(log[j])
    /\ (\E i \in LogIndex : log[i] \in {Ev("failed", "engine"), Ev("error", "engine")}) =>
          \A j \in LogIndex : log[j].op # "readFile"
    /\ \A i \in LogIndex :
          log[i] = Ev("failed", "readFile") =>
             Cardinality({ j \in LogIndex : log[j].op = "readFile" }) = 
               Len(outputFiles) + 1

\* a second requested artifact is left unread after the first could not be read
C2_Witness ==
    /\ pc = "done"
    /\ log[Len(log)] = Ev("failed", "readFile")
    /\ Requested(options, "json") /\ Requested(options, "txt")
    /\ outputFiles = <<>>
    /\ ArtifactPath(OutputStr(CWF.value), "txt") \in DOMAIN fs

\* C3: whenever a step of runWhisper fails, the message of the result the
\* caller receives is the message the failing step produced, unchanged: the
\* message of downloadModel's result after a model failure, the message of
\* convertAudioFile's result after a normalisation failure.
C3_MessageVerbatim ==
    /\ (pc = "done" /\ log[Len(log)] = Ev("failed", "downloadModel")) =>
          /\ Fulfilled(promise)
          /\ "message" \in DOMAIN resultDownModel.value
          /\ promise.value.message = resultDownModel.value.message
    /\ (pc = "done" /\ log[Len(log)] = Ev("failed", "convertAudioFile")) =>
          /\ Fulfilled(promise)
          /\ promise.value.message = CWF.value.message

\* C4: every call of runWhisper ends by resolving with an object that has a
\* success flag and a message: its promise is never rejected and no
\* exception escapes.
C4_AlwaysResolves ==
    /\ ~uncaught
    /\ Settled(promise) =>
          /\ Fulfilled(promise)
          /\ {"success", "message"} \subseteq DOMAIN promise.value

\* the exit codes the close handler has been given, as logged
ClosedWith(c) == \E i \in LogIndex : log[i] = Ev("close", c)
ContainsToken(msg, tok) == \E k \in 1..Len(msg) : msg[k] = tok
ContainsText(msg, text) ==
    \E k \in 0..(Len(msg) - Len(text)) : SubSeq(msg, k + 1, k + Len(text)) = text

\* C5: when the engine exits with a non-zero code, runWhisper returns
\* success: false with a message that contains the exit code and the stderr
\* text captured, and no artifact file is read.  No artifact is read either
\* when 'close' reports the negative errno of an engine that never started.
C5_EngineFailure ==
    /\ ClosedWith("1") =>
          /\ Fulfilled(promise)
          /\ ~promise.value.success
          /\ ContainsToken(promise.value.message, "1")
          /\ ContainsText(promise.value.message, stderr)
    /\ \A c \in {"1", "-2"} :
          ClosedWith(c) =>
             /\ \A j \in LogIndex : log[j].op # "readFile"
             /\ outputFiles = <<>>
             /\ pc = "done"

\* the engine wrote to stderr, then exited with code 1 although a format
\* was requested
C5_Witness ==
    /\ ClosedWith("1")
    /\ stderr # <<>>
    /\ \E i \in 1..Len(Formats) : Requested(options, Formats[i])

\* whether the artifact of format fmt can be read (and parsed, for JSON)
Readable(fmt) ==
    LET file == OutputStr(CWF.value) \o "." \o fmt
    IN  file \in DOMAIN fs /\ (fmt = "json" => fs[file].ok)
RequestedFormats ==
    { fmt \in {"json", "txt", "csv"} :
        \/ Truthy(Get(options, "outputAll"))
        \/ fmt = "json" /\ Truthy(Get(options, "outputJson"))
        \/ fmt = "txt" /\ Truthy(Get(options, "outputTxt"))
        \/ fmt = "csv" /\ Truthy(Get(options, "outputCsv")) }

\* C6: when the engine has exited with code 0 and the artifact of some
\* requested format is missing or, for JSON, unparseable, the invocation ends
\* with success: false; a success: true result is never returned while a
\* requested artifact cannot be read.
C6_ArtifactRequired ==
    /\ (pc = "done" /\ ClosedWith("0") /\ \E fmt \in RequestedFormats : ~Readable(fmt)) =>
          Fulfilled(promise) /\ ~promise.value.success
    /\ (Fulfilled(promise) /\ promise.value.success) =>
          \A fmt \in RequestedFormats : Readable(fmt)

\* the engine exited 0, the JSON artifact was read, the CSV one is missing
C6_Witness ==
    /\ pc = "done"
    /\ ClosedWith("0")
    /\ {"json", "csv"} \subseteq RequestedFormats
    /\ Len(outputFiles) > 0
    /\ ~Readable("csv")

\* C7: a success: true result lists exactly one entry per requested format,
\* in the order json, txt, csv, none for a format that was not requested,
\* each holding what is stored in <normalized audio path>.<format>.
C7_OutputsMatchRequest ==
    (Fulfilled(promise) /\ promise.value.success) =>
       LET out == promise.value.output
       IN  /\ { out[k].type : k \in 1..Len(out) } = RequestedFormats
           /\ Len(out) = Cardinality(RequestedFormats)
           /\ \A k \in 1..Len(out) :
                 /\ out[k].outputFile = OutputStr(CWF.value) \o "." \o out[k].type
                 /\ out[k].outputFile \in DOMAIN fs
                 /\ out[k].data = fs[out[k].outputFile]

\* a success with two artifacts, a third format not being requested
C7_Witness ==
    /\ Fulfilled(promise) /\ promise.value.success
    /\ Len(promise.value.output) = 2
    /\ RequestedFormats = {"json", "txt"}

\* C10: downloadModel called with a name that is neither a supported model
\* nor 'all' fails without any I/O: no existence check, no directory
\* created, no downloader spawned.
C10_InvalidModelNoIO ==
    (pc # "ready" /\ model \notin ModelSet /\ model # "all") =>
       /\ Fulfilled(resultDownModel)
       /\ ~resultDownModel.value.success
       /\ \A i \in LogIndex : log[i].op \notin {"existsSync", "mkdirSync", "spawn"}
       /\ DOMAIN downloaders = {}
       /\ (modelsPath \in DOMAIN fs => \E m \in ModelSet : ModelFile(m) \in DOMAIN fs)

\* an invalid name on a host whose models directory does not exist
C10_Witness ==
    /\ pc = "done"
    /\ model = "bogus"
    /\ modelsPath \notin DOMAIN fs

(***************************************************************************)
(* The argument list as a function of its inputs: every option object,     *)
(* with the model path, the language and the file drawn from small sets.   *)
(***************************************************************************)
ArgLanguages == {"auto", "en", ""}
ArgModelResults ==
    { DownloadDone("tiny"), [success |-> TRUE, details |-> <<>>] }
ArgFiles == {"a.wav", "b.mp3.TEMP.wav", "c.WAV.OUTPUT.wav"}

InitArgs ==
    /\ platform = "linux"
    /\ arch = "x64"
    /\ fs = <<>>
    /\ \E u \in UserOptions : options = MergeOptions(u)
    /\ pc = "args"
    /\ inputFile = <<"", "">>
    /\ model = ""
    /\ language \in ArgLanguages
    /\ downloaders = <<>>
    /\ calls = <<>>
    /\ \E r \in ArgModelResults : resultDownModel = Resolved(r)
    /\ conv = NoConv
    /\ \E f \in ArgFiles : CWF = Resolved([success |-> TRUE, message |-> <<>>, output |-> f])
    /\ args = <<>>
    /\ engine = "none"
    /\ stderr = <<>>
    /\ outputFiles = <<>>
    /\ promise = Pending
    /\ uncaught = FALSE
    /\ log = <<>>
    /\ NoProvisioning
    /\ NoConcurrency

\* const args = [ ... ].filter(Boolean)
ApplyBuildArgs ==
    /\ pc = "args"
    /\ args' = BuildArgs(options, ModelFileStr(resultDownModel.value), language,
                         OutputStr(CWF.value))
    /\ pc' = "args_built"
    /\ UNCHANGED <<concVars, fetchVars, platform, arch, fs, options, inputFile, model, language,
                   downloaders, calls, resultDownModel, conv, CWF, engine, stderr,
                   outputFiles, promise, uncaught, log>>

SpecArgs == InitArgs /\ [][ApplyBuildArgs]_vars

ArgTokens == { args[k] : k \in 1..Len(args) }

\* C8: the argument list holds the JSON, TXT and CSV switches exactly for
\* the requested formats, each at most once, and --translate exactly when
\* translate is enabled; with JSON alone requested it holds --output-json
\* and neither --output-txt nor --output-csv.
C8_FormatSwitches ==
    args # <<>> =>
       /\ \A fmt \in {"json", "txt", "csv"} :
             /\ ("--output-" \o fmt) \in ArgTokens <=> fmt \in RequestedFormats
             /\ Cardinality({ k \in 1..Len(args) : args[k] = "--output-" \o fmt }) <= 1
       /\ "--translate" \in ArgTokens <=> Truthy(Get(options, "translate"))
       /\ RequestedFormats = {"json"} =>
             /\ "--output-json" \in ArgTokens
             /\ "--output-txt" \notin ArgTokens
             /\ "--output-csv" \notin ArgTokens

\* only JSON is requested, and translation, and the list has been built
C8_Witness ==
    /\ pc = "args_built"
    /\ RequestedFormats = {"json"}
    /\ Truthy(Get(options, "translate"))

\* the value each value-taking flag was given
FlagValue(flag) ==
    CASE flag = "--threads" -> TemplateStr(Get(options, "threads"))
      [] flag = "--processors" -> TemplateStr(Get(options, "processors"))
      [] flag = "--duration" -> TemplateStr(Get(options, "duration"))
      [] flag = "--max-len" -> TemplateStr(Get(options, "maxLen"))
      [] flag = "--model" -> ModelFileStr(resultDownModel.value)
      [] flag = "--language" -> language
      [] OTHER -> OutputStr(CWF.value)
ValueFlags ==
    {"--threads", "--processors", "--duration", "--max-len", "--model",
     "--language", "--file"}

\* C9: the argument list holds no empty token, and every value-taking flag
\* in it is immediately followed by its own value.
C9_FlagsHaveValues ==
    args # <<>> =>
       /\ \A k \in 1..Len(args) : args[k] # ""
       /\ \A k \in 1..Len(args) :
             args[k] \in ValueFlags =>
                k < Len(args) /\ args[k + 1] = FlagValue(args[k])

(***************************************************************************)
(* Properties of the model cache (downloadModel).                          *)
(***************************************************************************)
\* C11: downloadModel called with a name that is neither a supported model
\* nor 'all' fails with a result whose message names every supported model.
C11_MessageListsModels ==
    (pc # "ready" /\ IsInvalidModel(model)) =>
       /\ Fulfilled(resultDownModel)
       /\ ~resultDownModel.value.success
       /\ \A i \in 1..Len(models) :
             ContainsToken(resultDownModel.value.message, models[i])

\* the spawn entries of the log
SpawnIndex == { i \in LogIndex : log[i].op = "spawn" }

\* C12: a downloadModel call for a supported model whose file
\* ggml-<name>.bin exists when the call is made is resolved at once with
\* success and that file's path, and no downloader is spawned for it: the
\* only downloaders spawned by the call are those of the models whose files
\* are missing.
C12_CacheHit ==
    [][ (pc = "ready" /\ pc' = "await_dm") =>
          /\ \A m \in DOMAIN calls' :
                existsSync(fs, ModelFile(m)) =>
                   /\ Fulfilled(calls'[m])
                   /\ calls'[m].value.success
                   /\ calls'[m].value.modelFile = ModelFile(m)
                   /\ m \notin DOMAIN downloaders'
          /\ Cardinality({ i \in 1..Len(log') : log'[i].op = "spawn" })
               = Cardinality({ m \in DOMAIN calls' : ~existsSync(fs, ModelFile(m)) })
          /\ (model' \in ModelSet /\ existsSync(fs, ModelFile(model'))) =>
                /\ resultDownModel' = calls'[model']
                /\ DOMAIN downloaders' = {}
                /\ fs' = fs
      ]_vars

\* a single cached model was asked for and the call has resolved with its path
C12_Witness ==
    /\ pc = "await_dm"
    /\ model \in ModelSet
    /\ Fulfilled(resultDownModel)
    /\ resultDownModel.value.success
    /\ resultDownModel.value.modelFile = ModelFile(model)
    /\ DOMAIN downloaders = {}
    /\ SpawnIndex = {}
    /\ \E i \in LogIndex : log[i] = Ev("existsSync", ModelFile(model))

\* C13: after a download has failed (the downloader exited with a non-zero
\* code and the call was rejected), no file is left at the model's path.
C13_NoFileAfterFailedDownload ==
    \A m \in DOMAIN calls :
       calls[m].state = "rejected" => ~existsSync(fs, ModelFile(m))

\* C14: downloadModel('all') makes one call per supported model, and the
\* result it delivers reports the outcome of every one of them, the failed
\* ones included.
C14_AllReportsEveryOutcome ==
    (model = "all" /\ pc # "ready") =>
       /\ DOMAIN calls = ModelSet
       /\ (\A m \in ModelSet : Settled(calls[m])) => Settled(resultDownModel)
       /\ Settled(resultDownModel) =>
             /\ "details" \in DOMAIN resultDownModel.value
             /\ Len(resultDownModel.value.details) = Len(models)
             /\ \A i \in 1..Len(models) :
                   /\ Settled(calls[models[i]])
                   /\ resultDownModel.value.details[i] = calls[models[i]].value

(***************************************************************************)
(* Properties of the audio normaliser (convertAudioFile).                  *)
(***************************************************************************)
\* the converter and the prober of this host are both installed
ToolsAvailable ==
    /\ getFFmpegPaths(platform, arch, fs).throws = ""
    /\ \A prog \in {"ffmpeg", "ffprobe"} : existsSync(fs, BinPath(platform, arch, prog))
\* the subprocesses convertAudioFile has spawned, in order
NormalizerSpawns(l) ==
    SelectSeq(l, LAMBDA e : e.op = "spawn" /\ e.arg \in ConverterPaths)
\* convertAudioFile has been called on an existing .wav file whose sample
\* rate is the desired one, on a host with the converter and the prober
CanonicalInput ==
    /\ \E i \in LogIndex : log[i] = Ev("call", "convertAudioFile")
    /\ ToolsAvailable
    /\ conv.isWav
    /\ existsSync(fs, conv.input)
    /\ fs[conv.input].rate = DesiredSampleRate

\* C15 as stated: for an input that is a .wav file at the desired sample
\* rate, convertAudioFile spawns no subprocess at all, and returns success
\* with the input path as output.
C15_NoSubprocess ==
    CanonicalInput =>
       /\ NormalizerSpawns(log) = <<>>
       /\ Settled(CWF) => /\ CWF.value.success
                          /\ CWF.value.output = conv.input

\* C15 as amended: for an input that is a .wav file at the desired sample
\* rate, the only subprocess convertAudioFile spawns is one probe of the
\* input's sample rate, never the converter; when that probe exits with
\* code 0 the call returns success with the input path as output and has
\* written no file, and a success is never returned with another output.
C15_CanonicalInputOnlyProbed ==
    /\ [](CanonicalInput =>
            /\ NormalizerSpawns(log) = <<Ev("spawn", conv.ffprobePath)>>
            /\ (Settled(CWF) /\ CWF.value.success) => CWF.value.output = conv.input)
    /\ [][ (CanonicalInput /\ getSampleRateClose(0)) =>
              /\ Fulfilled(CWF')
              /\ CWF'.value.success
              /\ CWF'.value.output = conv.input
              /\ fs' = fs
              /\ log' = log ]_vars

\* a.wav at 16000 Hz has gone through: probed once, returned as it is
C15_Witness ==
    /\ CanonicalInput
    /\ Fulfilled(CWF)
    /\ CWF.value.success
    /\ CWF.value.output = conv.input
    /\ NormalizerSpawns(log) = <<Ev("spawn", conv.ffprobePath)>>

\* the paths that name a file in the canonical container: the inputs with
\* the extension .wav (in any case) and the files convertAudioFile writes
WavPaths ==
    { PathStr(p) : p \in { q \in InputFiles : ToLowerCase(extname(q)) = ".wav" } }
      \cup { TempWavPath(PathStr(p)) : p \in InputFiles }
      \cup { OutputWavPath(PathStr(p)) : p \in InputFiles }

\* C16: whenever convertAudioFile has returned success, the file named by
\* output exists, is a .wav file, and holds audio at the desired sample
\* rate, whatever the container and the sample rate of the input were.
C16_OutputIsCanonical ==
    (Fulfilled(CWF) /\ CWF.value.success) =>
       /\ existsSync(fs, CWF.value.output)
       /\ CWF.value.output \in WavPaths
       /\ fs[CWF.value.output].rate = DesiredSampleRate

\* an input that was neither a .wav file nor at the desired rate has been
\* transcoded and resampled, and a .wav input at another rate resampled
C16_Witness ==
    /\ Fulfilled(CWF)
    /\ CWF.value.success
    /\ ~conv.isWav
    /\ CWF.value.output = OutputWavPath(conv.input)
    /\ fs[conv.input].rate # DesiredSampleRate

\* C17: once convertAudioFile has returned, with success or with failure,
\* the temporary file <input>.TEMP.wav is on disk only if it is the output
\* the call returned.
C17_TempFileRemoved ==
    (Settled(CWF) /\ existsSync(fs, TempWavPath(conv.input))) =>
       /\ CWF.value.success
       /\ CWF.value.output = TempWavPath(conv.input)

\* C18: when convertAudioFile is called with an input file that does not
\* exist, or on a host without the converter or the prober, it returns a
\* failure in the same turn: it spawns nothing and creates no file, and is
\* left with no subprocess to wait for.
C18_FailsBeforeSpawning ==
    [][ (pc = "await_dm" /\ pc' = "await_conv"
           /\ (~existsSync(fs, PathStr(inputFile)) \/ ~ToolsAvailable)) =>
          /\ Fulfilled(CWF')
          /\ ~CWF'.value.success
          /\ fs' = fs
          /\ conv'.step = "none"
          /\ \A j \in (Len(log) + 1)..Len(log') :
                log'[j].op \in {"ok", "call", "existsSync"}
      ]_vars

\* both reasons have been met: a missing input on a host with the tools,
\* or an existing input on a host without the prober
C18_Witness ==
    /\ pc = "await_conv"
    /\ Fulfilled(CWF)
    /\ ~CWF.value.success
    /\ NormalizerSpawns(log) = <<>>
    /\ \/ ~existsSync(fs, PathStr(inputFile)) /\ ToolsAvailable
       \/ existsSync(fs, PathStr(inputFile)) /\ ~ToolsAvailable

(***************************************************************************)
(* fetchBinFiles: the call, the events of one download, and the rest of    *)
(* the call after each download.  postinstall.js passes process.platform   *)
(* and process.arch as os and arch.                                        *)
(***************************************************************************)
pipelineVars ==
    <<options, pc, inputFile, model, language, downloaders, calls,
      resultDownModel, conv, CWF, args, engine, stderr, outputFiles, promise, log>>

\* the object the outer catch block returns
ErrorResult(message) == [success |-> FALSE, error |-> message]

\* the paths a result reports as installed, and the requests a call made
InstalledPaths(result) ==
    IF "files" \notin DOMAIN result THEN {}
    ELSE { result.files.success[i].path : i \in 1..Len(result.files.success) }
           \cup { result.dependencies.success[i].path :
                    i \in 1..Len(result.dependencies.success) }
Requests(processed) == { i \in 1..Len(processed) : processed[i].requested }

\* what is kept of a call once the next call has returned
Summary(r) ==
    [programs |-> r.programs, success |-> r.result.success,
     installed |-> InstalledPaths(r.result),
     requests |-> Cardinality(Requests(r.processed))]

\* Call n has returned.  `last` is the list holding its arguments, its result
\* and what it processed; `before` the list holding the summary of the call
\* that returned before it, if there was one.
Return(n, programs, result, processed) ==
    /\ fb' = [IdleFetch EXCEPT !.n = n]
    /\ returned' = [last |-> <<[programs |-> programs, result |-> result,
                                processed |-> processed]>>,
                    before |-> IF returned.last = <<>> THEN <<>>
                               ELSE <<Summary(returned.last[1])>>]

\* The synchronous run of call n of fetchBinFiles from entry k of todo on:
\* either it reaches a download, creates the write stream and awaits the
\* fetch, or it reaches the end and returns.
RunFrom(n, programs, todo, k, f, result, processed, sourceWorks) ==
    LET a == Advance(todo, k, f, result, processed)
    IN  IF a.download
        THEN /\ fb' = [pc |-> "fetching", n |-> n, programs |-> programs,
                       todo |-> todo, k |-> a.k, result |-> a.result,
                       processed |-> a.processed]
             /\ fs' = a.fs
             /\ writers' = writers \cup {todo[a.k].dest}
             /\ UNCHANGED <<returned, env>>
        ELSE LET fin == Finish(todo, a.fs, a.result, platform, env, sourceWorks)
             IN  /\ Return(n, programs, fin.result, a.processed)
                 /\ fs' = a.fs
                 /\ env' = fin.env
                 /\ UNCHANGED writers

\* fetchBinFiles(os, arch, programs, destDir), up to its first await or return
fetchBinFiles(programs, sourceWorks) ==
    /\ fb.pc = "idle"
    /\ ~uncaught
    /\ writers = {}
    /\ fb.n < MaxFetchCalls
    /\ IF programs = <<>>
       THEN /\ Return(fb.n + 1, programs,
                      ErrorResult(<<"Invalid input: programs should be a non-empty array of program names.">>),
                      <<>>)
            /\ UNCHANGED <<fs, env, writers>>
       ELSE LET f0 == IF existsSync(fs, destDir) THEN fs ELSE WriteFile(fs, destDir, Dir)
                g == getFilePaths(manifest, platform, arch, programs)
            IN  IF g.throws # <<>>
                THEN /\ fs' = f0
                     /\ Return(fb.n + 1, programs, ErrorResult(g.throws), <<>>)
                     /\ UNCHANGED <<env, writers>>
                ELSE RunFrom(fb.n + 1, programs,
                             TodoFiles(g.files) \o TodoDependencies(g.files, programs),
                             1, f0, EmptyResult, <<>>, sourceWorks)
    /\ UNCHANGED <<platform, arch, manifest, uncaught, pipelineVars, concVars>>

\* the entry being downloaded
Current == fb.todo[fb.k]
\* every write stream created for an earlier download has opened its file:
\* opening a local file takes no longer than the next event of the network
EarlierWritersOpen == writers \subseteq {Current.dest}

\* fs.createWriteStream(dest): the stream opens its file, creating it empty
WriterOpens(dest) ==
    /\ dest \in writers
    /\ ~uncaught
    /\ writers' = writers \ {dest}
    /\ fs' = WriteFile(fs, dest, Download(FALSE))
    /\ UNCHANGED <<platform, arch, manifest, fb, returned, env, uncaught, pipelineVars, concVars>>

\* downloadFile: fetch rejects (a transport error) or the response is not
\* ok; the catch block unlinks dest if it exists and rethrows, and the catch
\* block of the loop records the failure
FetchFails(sourceWorks) ==
    /\ fb.pc = "fetching"
    /\ EarlierWritersOpen
    /\ ~uncaught
    /\ RunFrom(fb.n, fb.programs, fb.todo, fb.k + 1,
               IF existsSync(fs, Current.dest) THEN Unlink(fs, Current.dest) ELSE fs,
               PushFailed(fb.result, Current, <<"Failed to download ", Current.url>>),
               fb.processed, sourceWorks)
    /\ UNCHANGED <<platform, arch, manifest, uncaught, pipelineVars, concVars>>

\* downloadFile: the response is ok and its body is piped into the writer
FetchResponds ==
    /\ fb.pc = "fetching"
    /\ EarlierWritersOpen
    /\ ~uncaught
    /\ fb' = [fb EXCEPT !.pc = "piping"]
    /\ UNCHANGED <<platform, arch, fs, manifest, returned, env, writers, uncaught,
                   pipelineVars, concVars>>

\* stream.on('finish', resolve): the whole body has been written
StreamFinish(sourceWorks) ==
    /\ fb.pc = "piping"
    /\ EarlierWritersOpen
    /\ ~uncaught
    /\ Current.dest \notin writers
    /\ RunFrom(fb.n, fb.programs, fb.todo, fb.k + 1,
               WriteFile(fs, Current.dest, Download(TRUE)),
               PushSuccess(fb.result, Current, "downloaded"),
               fb.processed, sourceWorks)
    /\ UNCHANGED <<platform, arch, manifest, uncaught, pipelineVars, concVars>>

\* stream.on('error', err => fs.unlink(dest, () => reject(err))): the writer fails
WriterError(sourceWorks) ==
    /\ fb.pc = "piping"
    /\ EarlierWritersOpen
    /\ ~uncaught
    /\ Current.dest \notin writers
    /\ RunFrom(fb.n, fb.programs, fb.todo, fb.k + 1,
               IF existsSync(fs, Current.dest) THEN Unlink(fs, Current.dest) ELSE fs,
               PushFailed(fb.result, Current, <<"write error">>),
               fb.processed, sourceWorks)
    /\ UNCHANGED <<platform, arch, manifest, uncaught, pipelineVars, concVars>>

\* The response body fails in the middle of the transfer.  pipe() does not
\* pass the error on to the writer and downloadFile listens on the writer
\* only: the body's 'error' event has no listener, and the download is
\* never settled.
BodyError ==
    /\ fb.pc = "piping"
    /\ EarlierWritersOpen
    /\ ~uncaught
    /\ fb' = [fb EXCEPT !.pc = "stalled"]
    /\ uncaught' = TRUE
    /\ UNCHANGED <<platform, arch, fs, manifest, returned, env, writers, pipelineVars, concVars>>

(***************************************************************************)
(* Provisioning: hosts, what is installed already, and the calls made.     *)
(***************************************************************************)
\* the hosts, each with the environments it is provisioned in
FetchHosts ==
    { [platform |-> "win32", arch |-> "x64",
       envs |-> { e \in Environments : e.LD # <<>> }],
      [platform |-> "linux", arch |-> "x64", envs |-> Environments],
      [platform |-> "linux", arch |-> "arm64",
       envs |-> { e \in Environments : ~e.bashrc.exists /\ e.HOME }],
      [platform |-> "linux", arch |-> "arm",
       envs |-> { e \in Environments : ~e.bashrc.exists /\ e.HOME }],
      [platform |-> "android", arch |-> "arm64",
       envs |-> { e \in Environments : ~e.HOME }] }

\* the programs argument
FetchPrograms == { <<>>, <<"whisper">>, <<"whisper", "ffmpeg">>, <<"sox">> }

\* the destinations of the primary files and of the dependencies of a manifest
ManifestEntries(data) ==
    UNION { { data[os][i] : i \in 1..Len(data[os]) } : os \in DOMAIN data }
PrimaryDests(data) ==
    { DestPath(destDir, e.path) : e \in ManifestEntries(data) }
DependencyDests(data) ==
    UNION { { DestPath(destDir, e.dependencies[d].path) : d \in 1..Len(e.dependencies) }
            : e \in ManifestEntries(data) }

\* what is in the install directory before the first call: nothing, the
\* primary files, the dependencies, or everything
Installs(data) ==
    { <<>> } \cup
    { [p \in {destDir, destDir \o "/win32", destDir \o "/linux"} \cup S |->
         IF p \in S THEN Binary ELSE Dir]
      : S \in { PrimaryDests(data), DependencyDests(data),
                PrimaryDests(data) \cup DependencyDests(data) } }

InitFetch ==
    /\ \E h \in FetchHosts : platform = h.platform /\ arch = h.arch /\ env \in h.envs
    /\ manifest \in Manifests
    /\ fs \in Installs(manifest)
    /\ fb = IdleFetch
    /\ returned = [last |-> <<>>, before |-> <<>>]
    /\ writers = {}
    /\ options = MergeOptions(<<>>)
    /\ pc = "ready"
    /\ inputFile = <<"", "">>
    /\ model = ""
    /\ language = ""
    /\ downloaders = <<>>
    /\ calls = <<>>
    /\ resultDownModel = Pending
    /\ conv = NoConv
    /\ CWF = Pending
    /\ args = <<>>
    /\ engine = "none"
    /\ stderr = <<>>
    /\ outputFiles = <<>>
    /\ promise = Pending
    /\ uncaught = FALSE
    /\ log = <<>>
    /\ NoConcurrency

NextFetch ==
    \/ \E programs \in FetchPrograms, sourceWorks \in BOOLEAN :
          fetchBinFiles(programs, sourceWorks)
    \/ \E dest \in writers : WriterOpens(dest)
    \/ \E sourceWorks \in BOOLEAN : FetchFails(sourceWorks)
    \/ FetchResponds
    \/ \E sourceWorks \in BOOLEAN : StreamFinish(sourceWorks)
    \/ \E sourceWorks \in BOOLEAN : WriterError(sourceWorks)
    \/ BodyError

SpecFetch == InitFetch /\ [][NextFetch]_vars

(***************************************************************************)
(* Properties of the provisioning (fetchBinFiles).                         *)
(***************************************************************************)
\* the list of a result in which an entry of the given kind is recorded
SuccessList(result, kind) ==
    IF kind = "file" THEN result.files.success ELSE result.dependencies.success
\* every entry whose file was in place when the loop reached it has had no
\* request made for it and is in its success list with status 'exists'
ExistingRecorded(result, processed) ==
    \A i \in 1..Len(processed) :
       processed[i].existed =>
          /\ ~processed[i].requested
          /\ \E j \in 1..Len(SuccessList(result, processed[i].kind)) :
                /\ SuccessList(result, processed[i].kind)[j].path = processed[i].dest
                /\ SuccessList(result, processed[i].kind)[j].status = "exists"
\* the call that returned last went through its loops
LastIsNormal == returned.last # <<>> /\ "files" \in DOMAIN returned.last[1].result

\* C19: in fetchBinFiles, a primary file or a dependency that is at its
\* destination path when the call comes to it is recorded with status
\* 'exists' and no request is made for it; and a request is only ever made
\* for a file that is not in place.
C19_ExistingNotFetched ==
    /\ fb.pc # "idle" => ExistingRecorded(fb.result, fb.processed)
    /\ LastIsNormal =>
          ExistingRecorded(returned.last[1].result, returned.last[1].processed)
    /\ fb.pc \in {"fetching", "piping"} =>
          ~fb.processed[Len(fb.processed)].existed

\* a call has returned that found a primary file and a dependency in place
\* and had to download another file
C19_Witness ==
    /\ LastIsNormal
    /\ LET r == returned.last[1]
       IN  /\ \E i \in 1..Len(r.processed) :
                 r.processed[i].kind = "file" /\ r.processed[i].existed
           /\ \E i \in 1..Len(r.processed) :
                 r.processed[i].kind = "dep" /\ r.processed[i].existed
           /\ \E i \in 1..Len(r.result.files.success) :
                 r.result.files.success[i].status = "downloaded"

\* two calls in a row have returned, made with the same arguments
SameCallTwice ==
    /\ returned.last # <<>>
    /\ returned.before # <<>>
    /\ returned.last[1].programs = returned.before[1].programs

\* C20 as stated: the second of two calls in a row with the same arguments
\* makes no request and reports the same installed paths as the first.
C20_SecondCallNoRequests ==
    SameCallTwice =>
       /\ Requests(returned.last[1].processed) = {}
       /\ InstalledPaths(returned.last[1].result) = returned.before[1].installed

\* C20 as amended: when the first of two calls in a row with the same
\* arguments returned success, the second makes no request and reports the
\* same installed paths as the first, and it returns success too.
C20_IdempotentAfterSuccess ==
    (SameCallTwice /\ returned.before[1].success) =>
       /\ Requests(returned.last[1].processed) = {}
       /\ InstalledPaths(returned.last[1].result) = returned.before[1].installed
       /\ returned.last[1].result.success

\* the first call downloaded what was missing, the second found it all
C20_Witness ==
    /\ SameCallTwice
    /\ returned.before[1].success
    /\ returned.before[1].requests > 1
    /\ Requests(returned.last[1].processed) = {}
    /\ InstalledPaths(returned.last[1].result) = returned.before[1].installed
    /\ Cardinality(returned.before[1].installed) > 1

\* the entries the two loops of a call go through, in their order
Todo(programs) ==
    LET g == getFilePaths(manifest, platform, arch, programs)
    IN  TodoFiles(g.files) \o TodoDependencies(g.files, programs)
TodoEntries(programs) == { Todo(programs)[i] : i \in 1..Len(Todo(programs)) }

\* the list of a result in which a failed entry of the given kind is recorded
FailedList(result, kind) ==
    IF kind = "file" THEN result.files.failed ELSE result.dependencies.failed
\* the entries a returned call recorded in a failed list
FailedEntries(r) ==
    { e \in TodoEntries(r.programs) :
        \E j \in 1..Len(FailedList(r.result, e.kind)) :
           /\ FailedList(r.result, e.kind)[j].filename = e.filename
           /\ FailedList(r.result, e.kind)[j].url = e.url }
\* a call has returned from its normal path, no other call has begun, and
\* the write streams it created have all opened their files
ReturnedAndQuiet == LastIsNormal /\ fb.pc = "idle" /\ writers = {}

\* C21: after fetchBinFiles has returned, there is no file at the
\* destination of any entry it recorded in a failed list.
C21_NoPartialFile ==
    ReturnedAndQuiet => \A e \in FailedEntries(returned.last[1]) : ~existsSync(fs, e.dest)

\* how often an entry is recorded in the four lists of a result
TimesRecorded(result, e) ==
    LET InSuccess(l) == Cardinality({ j \in 1..Len(l) : l[j].path = e.dest })
        InFailed(l) == Cardinality({ j \in 1..Len(l) :
                                       l[j].filename = e.filename /\ l[j].url = e.url })
    IN  InSuccess(result.files.success) + InSuccess(result.dependencies.success)
          + InFailed(result.files.failed) + InFailed(result.dependencies.failed)
\* the arguments of the call that returned last resolve to files
LastResolved ==
    /\ returned.last # <<>>
    /\ getFilePaths(manifest, platform, arch, returned.last[1].programs).throws = <<>>

\* a call of fetchBinFiles whose arguments resolve to files has returned
\* from its normal path: it has taken every resolved primary file and every
\* dependency of its second loop in turn, has made a request for exactly
\* those that were not in place, and has recorded each in exactly one of
\* the success and failed lists
EveryEntryRecordedOnce ==
    LastResolved =>
       /\ LastIsNormal
       /\ LET r == returned.last[1]
              todo == Todo(r.programs)
          IN  /\ Len(r.processed) = Len(todo)
              /\ \A i \in 1..Len(todo) :
                    /\ r.processed[i].dest = todo[i].dest
                    /\ r.processed[i].kind = todo[i].kind
                    /\ r.processed[i].requested = ~r.processed[i].existed
                    /\ TimesRecorded(r.result, todo[i]) = 1

\* C22: in fetchBinFiles a failed download does not abort the batch: a call
\* that returns has recorded every entry exactly once, and a download that
\* broke off in the middle of its transfer does not leave the entries after
\* it unprocessed.
C22_FailureDoesNotAbort ==
    /\ EveryEntryRecordedOnce
    /\ fb.pc = "stalled" => fb.k = Len(fb.todo)

\* the files the arguments of a call resolve to
ResolvedFiles(programs) == getFilePaths(manifest, platform, arch, programs).files

\* C23: a call of fetchBinFiles that returns from its normal path has
\* applied the exists-or-download step to every dependency of every file its
\* components resolved to, whatever became of the file itself.
C23_DependenciesProcessed ==
    LastIsNormal =>
       LET r == returned.last[1]
           files == ResolvedFiles(r.programs)
       IN  \A i \in 1..Len(files) : \A d \in 1..Len(files[i].dependencies) :
              \E j \in 1..Len(r.processed) :
                 /\ r.processed[j].kind = "dep"
                 /\ r.processed[j].dest = DestPath(destDir, files[i].dependencies[d].path)

\* this step is the return of a call of fetchBinFiles
Returns == fb'.pc = "idle" /\ (fb.pc # "idle" \/ fb'.n # fb.n)
\* ... from its normal path, after both loops
ReturnsNormally == Returns /\ "files" \in DOMAIN returned'.last[1].result

\* C24: when fetchBinFiles returns from its normal path, the success flag of
\* the result is true exactly when every resolved primary file is on disk
\* and both failed lists are empty.
C24_SuccessFlag ==
    [][ ReturnsNormally =>
          LET r == returned'.last[1]
              files == ResolvedFiles(r.programs)
          IN  r.result.success <=>
                 /\ \A i \in 1..Len(files) :
                       existsSync(fs', DestPath(destDir, files[i].path))
                 /\ r.result.files.failed = <<>>
                 /\ r.result.dependencies.failed = <<>> ]_vars

\* a call has returned without success because a dependency failed, though
\* every primary file was installed
C24_Witness ==
    /\ LastIsNormal
    /\ ~returned.last[1].result.success
    /\ returned.last[1].result.files.failed = <<>>
    /\ returned.last[1].result.dependencies.failed # <<>>
    /\ Len(returned.last[1].result.files.success) > 1

\* a file of the manifest that is of the given component for the platform
\* and architecture of the host
FilesOfComponent(program) ==
    IF platform \notin DOMAIN manifest THEN {}
    ELSE { e \in { manifest[platform][i] : i \in 1..Len(manifest[platform]) } :
             /\ Includes(e.filename, program)
             /\ platform = "linux" => e.architecture = arch }

\* C25: when fetchBinFiles has returned success:true, for each requested
\* component a file of that component for the platform and architecture of
\* the host is on disk; a component the architecture filter left without a
\* file is never reported as a success.
C25_SuccessMeansInstalled ==
    (returned.last # <<>> /\ returned.last[1].result.success) =>
       \A i \in 1..Len(returned.last[1].programs) :
          \E e \in FilesOfComponent(returned.last[1].programs[i]) :
             existsSync(fs, DestPath(destDir, e.path))

\* the component list is empty or names a component that no entry of the
\* manifest is a file of
InvalidComponents(programs) ==
    \/ programs = <<>>
    \/ \E i \in 1..Len(programs) :
          \A e \in ManifestEntries(manifest) : ~Includes(e.filename, programs[i])

\* C26: a call of fetchBinFiles with an empty component list or with an
\* unknown component fails before any I/O: it never comes to a download, and
\* when it returns no directory has been created and no write stream opened.
C26_FailsBeforeIO ==
    [][ /\ fb'.pc # "idle" => ~InvalidComponents(fb'.programs)
        /\ (Returns /\ InvalidComponents(returned'.last[1].programs)) =>
              /\ ~returned'.last[1].result.success
              /\ fs' = fs
              /\ writers' = writers ]_vars

\* C27: fetchBinFiles goes on to its loops only when every requested
\* component has an entry for the platform and architecture of the host, and
\* then with such entries only; otherwise the call fails and has made no
\* request.
C27_OnlyMatchingEntries ==
    /\ fb.pc # "idle" =>
          /\ \A i \in 1..Len(fb.programs) : FilesOfComponent(fb.programs[i]) # {}
          /\ \A k \in 1..Len(fb.todo) :
                fb.todo[k].kind = "file" =>
                   \E i \in 1..Len(fb.programs) :
                      \E e \in FilesOfComponent(fb.programs[i]) :
                         fb.todo[k].dest = DestPath(destDir, e.path)
    /\ returned.last # <<>> =>
          LET r == returned.last[1]
          IN  (\E i \in 1..Len(r.programs) : FilesOfComponent(r.programs[i]) = {}) =>
                 /\ ~r.result.success
                 /\ "error" \in DOMAIN r.result
                 /\ Requests(r.processed) = {}

\* the directory fetchBinFiles passes to setLDLibraryPath
LibDir == destDir \o "/linux"
\* how often a directory is listed in a search path
Occurrences(searchPath, dir) ==
    Cardinality({ i \in 1..Len(searchPath) : searchPath[i] = dir })
\* a call has gone through both loops and returned on Linux or Android
CompletedOnPosix == LastIsNormal /\ platform \in {"linux", "android"}

\* C28: once fetchBinFiles has completed on Linux or Android, the install
\* directory is listed in LD_LIBRARY_PATH of the environment of the process;
\* on win32 the environment and ~/.bashrc are as they were.
C28_InProcessEnvironment ==
    /\ CompletedOnPosix => Occurrences(env.LD, LibDir) > 0
    /\ platform = "win32" => env \in Environments

\* the search path exported in ~/.bashrc, empty when there is no export
Exported(e) == IF e.bashrc.export = <<>> THEN <<>> ELSE e.bashrc.export[1]

\* C29: however often fetchBinFiles has run, the install directory is
\* listed at most once in the export of ~/.bashrc and at most once in
\* LD_LIBRARY_PATH of the process; and a run that finds it listed in both
\* changes neither.
C29_ListedAtMostOnce ==
    [][ /\ Occurrences(Exported(env'), LibDir) <= 1
        /\ Occurrences(env'.LD, LibDir) <= 1
        /\ (Occurrences(Exported(env), LibDir) > 0 /\ Occurrences(env.LD, LibDir) > 0)
              => env' = env ]_vars

\* C30: a run of fetchBinFiles keeps every directory that the export of
\* LD_LIBRARY_PATH in ~/.bashrc listed before it, and the rest of the file.
C30_ExportEntriesKept ==
    [][ /\ \A i \in 1..Len(Exported(env)) :
              Occurrences(Exported(env'), Exported(env)[i]) > 0
        /\ env'.bashrc.other = env.bashrc.other ]_vars

\* C31: every value fetchBinFiles returns has the fields success, files and
\* dependencies, and files and dependencies each a success and a failed
\* list.
C31_ResultShape ==
    returned.last # <<>> =>
       LET result == returned.last[1].result
       IN  /\ DOMAIN result = {"success", "files", "dependencies"}
           /\ DOMAIN result.files = {"success", "failed"}
           /\ DOMAIN result.dependencies = {"success", "failed"}

\* Provisioning in which every transfer comes to an end: the write stream
\* opens its file, fetch answers or fails, and a body that is being piped
\* ends, by finishing, by an error of the writer or by an error of the body.
SpecFetchLive ==
    /\ SpecFetch
    /\ WF_vars(\E dest \in writers : WriterOpens(dest))
    /\ WF_vars(\/ \E sourceWorks \in BOOLEAN : FetchFails(sourceWorks)
               \/ FetchResponds)
    /\ WF_vars(\/ \E sourceWorks \in BOOLEAN : StreamFinish(sourceWorks)
               \/ \E sourceWorks \in BOOLEAN : WriterError(sourceWorks)
               \/ BodyError)

\* C38: when every transfer completes or fails, a call of fetchBinFiles
\* that is under way eventually returns; an error of the response body in
\* the middle of a transfer included.
C38_EveryCallReturns == (fb.pc # "idle") ~> (fb.pc = "idle")

(***************************************************************************)
(* Properties of the options, the arguments and the end of the pipeline.   *)
(***************************************************************************)
\* the instance was constructed with an option object that has no such key
ConstructedWithout(key) ==
    \E u \in PipelineOptions : key \notin DOMAIN u /\ options = MergeOptions(u)

\* C32: an instance constructed without an outputJson option has outputJson
\* enabled, and the engine it spawns is asked for the JSON output; without
\* an outputTxt or outputCsv option these are disabled.
C32_JsonByDefault ==
    /\ ConstructedWithout("outputJson") =>
          /\ Truthy(options.outputJson)
          /\ engine # "none" => \E k \in 1..Len(args) : args[k] = FormatFlag("json")
    /\ ConstructedWithout("outputTxt") => ~Truthy(options.outputTxt)
    /\ ConstructedWithout("outputCsv") => ~Truthy(options.outputCsv)

\* The pipeline with the reads of the close handler taken to complete:
\* fs.readFile settles its promise, and the continuation of the await runs.
SpecLive == Spec /\ WF_vars(\E i \in 1..Len(Formats) : ReadArtifact(i))

\* the engine subprocess is alive: spawned, neither closed nor failed
EngineAlive == pc = "engine" /\ engine \in {"spawned", "running"}

\* C36: while the engine neither exits nor errors the promise of runWhisper
\* stays pending; during the engine's run it is settled only by a step in
\* which the engine closes or fails; and once the engine has closed the
\* promise is eventually settled.
C36_NoTimeout ==
    /\ [](EngineAlive => ~Settled(promise))
    /\ [][ (pc = "engine" /\ promise' # promise) =>
              (engine' # engine /\ engine' \in {"closed", "errored"}) ]_vars
    /\ (engine = "closed") ~> Settled(promise)

\* the engine wrote to stderr, closed with exit code 0, and the invocation
\* was settled with the artifacts after they had been read
C36_Witness ==
    /\ engine = "closed"
    /\ stderr # <<>>
    /\ pc = "done"
    /\ Fulfilled(promise)
    /\ promise.value.success
    /\ Len(promise.value.output) > 1

\* C37: whenever the engine has been spawned, the token that follows
\* --model in its argument list is the path of a model file on the disk,
\* whichever model argument downloadModel accepted ('all' included).
C37_ModelFileExists ==
    engine # "none" =>
       \E k \in 1..(Len(args) - 1) :
          /\ args[k] = "--model"
          /\ existsSync(fs, args[k + 1])
          /\ fs[args[k + 1]].kind = "model"

\* The pipeline in which every downloader comes to an end: one that was
\* started writes and exits, with some code, or it fails to start.
SpecDownloadLive ==
    /\ Spec
    /\ WF_vars(\E m \in ModelSet : DownloaderWrites(m))
    /\ WF_vars(\E m \in ModelSet :
                  \/ \E code \in ExitCodes : DownloaderClose(m, code)
                  \/ DownloaderError(m))

\* C39: when every downloader exits or fails to start, the promise a call
\* of downloadModel returned is eventually settled; a downloader that
\* cannot be started included.
C39_EveryCallSettles == (pc = "await_dm") ~> Settled(resultDownModel)

(***************************************************************************)
(* Two runWhisper invocations at once, by two callers in one process or    *)
(* in two: each goes through downloadModel, convertAudioFile and the       *)
(* engine on the one file system.  A file a downloader writes is kept as   *)
(* the list of its chunks, each with the caller whose downloader wrote it  *)
(* last (0 where nothing was written).                                     *)
(***************************************************************************)
\* a model file with the chunks written so far; ok when none is missing
ModelBytes(data) ==
    [kind |-> "model", rate |-> 0,
     ok |-> Len(data) = ModelChunks /\ \A i \in 1..Len(data) : data[i] # 0,
     data |-> data]
\* a write of chunk k through a descriptor of its own
WriteAt(data, k, tag) ==
    [i \in 1..(IF k > Len(data) THEN k ELSE Len(data)) |->
        IF i = k THEN tag ELSE IF i <= Len(data) THEN data[i] ELSE 0]

\* the accesses a step of caller c makes to files other than its input file
Touch(c, accesses) ==
    touched' = touched \cup
       { [path |-> a[1], by |-> c, op |-> a[2]] :
           a \in { b \in accesses : b[1] # PathStr(inv[c].input) } }

\* runWhisper(i, m, language) by caller c, up to `await downloadModel(model)`
ConcRunWhisper(c, i, m) ==
    /\ inv[c].pc = "ready"
    /\ LET d == DownloadOne(m, fs, platform)
       IN  /\ fs' = d.fs
           /\ inv' = [inv EXCEPT ![c] =
                        [@ EXCEPT !.pc = IF d.spawned THEN "dm_spawned" ELSE "dm_done",
                                  !.input = i, !.model = m, !.dm = d.promise]]
    /\ UNCHANGED <<touched, platform, arch, uncaught, pipelineVars, fetchVars>>

\* the downloader of caller c opens its output file: wget -O and curl -o
\* create the file or truncate the one that is there
ConcDownloaderOpens(c) ==
    /\ inv[c].pc = "dm_spawned"
    /\ fs' = WriteFile(fs, ModelFile(inv[c].model), ModelBytes(<<>>))
    /\ inv' = [inv EXCEPT ![c].pc = "dm_writing"]
    /\ UNCHANGED <<touched, platform, arch, uncaught, pipelineVars, fetchVars>>

\* the downloader of caller c writes its next chunk
ConcDownloaderWrites(c) ==
    /\ inv[c].pc = "dm_writing"
    /\ inv[c].pos < ModelChunks
    /\ fs' = WriteFile(fs, ModelFile(inv[c].model),
                       ModelBytes(WriteAt(fs[ModelFile(inv[c].model)].data,
                                          inv[c].pos + 1, c)))
    /\ inv' = [inv EXCEPT ![c].pos = @ + 1]
    /\ UNCHANGED <<touched, platform, arch, uncaught, pipelineVars, fetchVars>>

\* downloader.on('close', code => ...) of caller c: exit code 0 once every
\* chunk is written
ConcDownloaderClose(c, code) ==
    /\ inv[c].pc \in {"dm_spawned", "dm_writing"}
    /\ code = 0 => (inv[c].pc = "dm_writing" /\ inv[c].pos = ModelChunks)
    /\ inv' = [inv EXCEPT ![c].pc = "dm_done",
                          ![c].dm = DownloaderOutcome(inv[c].model, code)]
    /\ UNCHANGED <<fs, touched, platform, arch, uncaught, pipelineVars, fetchVars>>

\* the continuation of `await downloadModel(model)` of caller c
ConcAfterDownloadModel(c) ==
    /\ inv[c].pc = "dm_done"
    /\ IF ~Fulfilled(inv[c].dm)
       THEN inv' = [inv EXCEPT ![c].pc = "done",
                               ![c].promise = Rejected(inv[c].dm.value)]
       ELSE IF ModelStepFailed(inv[c].dm.value)
       THEN inv' = [inv EXCEPT ![c].pc = "done",
                               ![c].promise = Resolved(ModelFailureResult(inv[c].model))]
       ELSE LET s == ConvertStart(inv[c].input, fs, platform, arch)
            IN  inv' = [inv EXCEPT ![c].pc = "conv", ![c].conv = s.conv,
                                   ![c].CWF = s.promise]
    /\ UNCHANGED <<fs, touched, platform, arch, uncaught, pipelineVars, fetchVars>>

\* getSampleRate of caller c: ffprobe closes; it exits with 0 only if the
\* file it was given is there
ConcGetSampleRateClose(c, code) ==
    /\ inv[c].pc = "conv"
    /\ inv[c].conv.step = "probe"
    /\ code = 0 => existsSync(fs, inv[c].conv.probed)
    /\ LET v == inv[c].conv
       IN  IF code # 0
           THEN inv' = [inv EXCEPT
                          ![c].conv.step = "none",
                          ![c].CWF = Resolved(ConvertFailure(v.input,
                                        <<"Failed to get sample rate: ", "stderr">>))]
           ELSE IF RateOf(fs, v.probed) = DesiredSampleRate
           THEN inv' = [inv EXCEPT
                          ![c].conv.step = "none",
                          ![c].CWF = Resolved([success |-> TRUE, message |-> <<>>,
                                               output |-> v.probed])]
           ELSE inv' = [inv EXCEPT ![c].conv = StartResample(v, v.probed)]
    /\ Touch(c, IF code = 0 THEN {<<inv[c].conv.probed, "read">>} ELSE {})
    /\ UNCHANGED <<fs, platform, arch, uncaught, pipelineVars, fetchVars>>

\* convertToWav of caller c: ffmpeg -y -i input `${input}.TEMP.wav` closes
ConcConvertToWavClose(c, code) ==
    /\ inv[c].pc = "conv"
    /\ inv[c].conv.step = "towav"
    /\ code = 0 => existsSync(fs, inv[c].conv.input)
    /\ LET v == inv[c].conv
       IN  IF code # 0
           THEN /\ inv' = [inv EXCEPT
                             ![c].conv.step = "none",
                             ![c].CWF = Resolved(ConvertFailure(v.input,
                                           <<"Failed to convert to WAV: ", "stderr">>))]
                /\ UNCHANGED <<fs, touched>>
           ELSE /\ fs' = WriteFile(fs, TempWavPath(v.input), Audio(RateOf(fs, v.input)))
                /\ inv' = [inv EXCEPT ![c].conv.step = "probe",
                                      ![c].conv.probed = TempWavPath(v.input)]
                /\ Touch(c, {<<TempWavPath(v.input), "write">>})
    /\ UNCHANGED <<platform, arch, uncaught, pipelineVars, fetchVars>>

\* convertSampleRate of caller c: ffmpeg -y -i source -ar 16000
\* `${input}.OUTPUT.wav` closes; then, for an input that is no .wav file,
\* fs.unlinkSync(tempWavPath), which throws when the file is not there
ConcConvertSampleRateClose(c, code) ==
    /\ inv[c].pc = "conv"
    /\ inv[c].conv.step = "resample"
    /\ code = 0 => existsSync(fs, inv[c].conv.source)
    /\ LET v == inv[c].conv
           temp == TempWavPath(v.input)
           out == OutputWavPath(v.input)
           written == WriteFile(fs, out, Audio(DesiredSampleRate))
       IN  IF code # 0
           THEN /\ inv' = [inv EXCEPT
                             ![c].conv.step = "none",
                             ![c].CWF = Resolved(ConvertFailure(v.input,
                                           <<"Failed to convert '", v.source,
                                             "' to the desired sample rate: ", "stderr">>))]
                /\ UNCHANGED <<fs, touched>>
           ELSE IF v.isWav
           THEN /\ fs' = written
                /\ inv' = [inv EXCEPT
                             ![c].conv.step = "none",
                             ![c].CWF = Resolved([success |-> TRUE, message |-> <<>>,
                                                  output |-> out])]
                /\ Touch(c, {<<v.source, "read">>, <<out, "write">>})
           ELSE IF existsSync(written, temp)
           THEN /\ fs' = Unlink(written, temp)
                /\ inv' = [inv EXCEPT
                             ![c].conv.step = "none",
                             ![c].CWF = Resolved([success |-> TRUE, message |-> <<>>,
                                                  output |-> out])]
                /\ Touch(c, {<<v.source, "read">>, <<out, "write">>, <<temp, "unlink">>})
           ELSE /\ fs' = written
                /\ inv' = [inv EXCEPT
                             ![c].conv.step = "none",
                             ![c].CWF = Resolved(ConvertFailure(v.input,
                                           <<"ENOENT: no such file or directory, unlink '",
                                             temp, "'">>))]
                /\ Touch(c, {<<v.source, "read">>, <<out, "write">>})
    /\ UNCHANGED <<platform, arch, uncaught, pipelineVars, fetchVars>>

\* the continuation of `await convertAudioFile(inputFile)` of caller c: the
\* engine is spawned on the model file and the normalised audio
ConcAfterConvert(c) ==
    /\ inv[c].pc = "conv"
    /\ Settled(inv[c].CWF)
    /\ IF NormalizeFailed(inv[c].CWF.value)
       THEN inv' = [inv EXCEPT
                      ![c].pc = "done",
                      ![c].promise = Resolved([success |-> FALSE,
                                               message |-> inv[c].CWF.value.message])]
       ELSE inv' = [inv EXCEPT
                      ![c].pc = "engine",
                      ![c].startedOn = <<fs[ModelFileStr(inv[c].dm.value)]>>]
    /\ UNCHANGED <<fs, touched, platform, arch, uncaught, pipelineVars, fetchVars>>

\* subprocess.on('close', ...) of the engine of caller c, up to the first
\* await: the engine has read its input and, with exit code 0, has written
\* the JSON artifact next to it
ConcEngineClose(c, code) ==
    /\ inv[c].pc = "engine"
    /\ Requested(options, "json")
    /\ code = 0 => existsSync(fs, OutputStr(inv[c].CWF.value))
    /\ LET out == OutputStr(inv[c].CWF.value)
       IN  IF code = 0
           THEN /\ fs' = WriteFile(fs, ArtifactPath(out, "json"), Artifact(TRUE))
                /\ inv' = [inv EXCEPT ![c].pc = "read_json"]
                /\ Touch(c, {<<out, "read">>, <<ArtifactPath(out, "json"), "write">>})
           ELSE /\ inv' = [inv EXCEPT
                             ![c].pc = "done",
                             ![c].promise = Resolved(EngineFailureResult(code, <<>>))]
                /\ UNCHANGED <<fs, touched>>
    /\ UNCHANGED <<platform, arch, uncaught, pipelineVars, fetchVars>>

\* the continuation of `await fs.readFile(`${CWF.output}.json`)` of caller c
ConcReadArtifact(c) ==
    /\ inv[c].pc = "read_json"
    /\ LET file == ArtifactPath(OutputStr(inv[c].CWF.value), "json")
       IN  /\ inv' = [inv EXCEPT
                        ![c].pc = "done",
                        ![c].promise =
                           IF ReadSucceeds(fs, file, "json")
                           THEN Resolved(SuccessResult(<<OutputEntry(fs, file, "json")>>))
                           ELSE Resolved(ReadFailureResult(fs, file, "json"))]
           /\ Touch(c, {<<file, "read">>})
    /\ UNCHANGED <<fs, platform, arch, uncaught, pipelineVars, fetchVars>>

\* the inputs and the model of the two invocations
ConcInputs == { <<"b", ".mp3">>, <<"c", ".WAV">> }
ConcModels == { models[1] }

\* a host with everything installed, the model cached or not
InitConcurrent ==
    /\ platform = "linux"
    /\ arch = "x64"
    /\ \E cache \in { [p \in {modelsPath} |-> Dir],
                      [p \in {modelsPath, ModelFile(models[1])} |->
                         IF p = modelsPath THEN Dir ELSE ModelData(TRUE)] } :
          fs = [p \in { BinPath("linux", "x64", prog) : prog \in Programs } |-> Binary]
                 @@ cache @@ AudioOnDisk
    /\ options = MergeOptions([outputJson |-> JsBool(TRUE)])
    /\ pc = "ready"
    /\ inputFile = <<"", "">>
    /\ model = ""
    /\ language = ""
    /\ downloaders = <<>>
    /\ calls = <<>>
    /\ resultDownModel = Pending
    /\ conv = NoConv
    /\ CWF = Pending
    /\ args = <<>>
    /\ engine = "none"
    /\ stderr = <<>>
    /\ outputFiles = <<>>
    /\ promise = Pending
    /\ uncaught = FALSE
    /\ log = <<>>
    /\ NoProvisioning
    /\ NoConcurrency

NextConcurrent ==
    \E c \in Callers :
       \/ \E i \in ConcInputs, m \in ConcModels : ConcRunWhisper(c, i, m)
       \/ ConcDownloaderOpens(c)
       \/ ConcDownloaderWrites(c)
       \/ \E code \in ExitCodes : ConcDownloaderClose(c, code)
       \/ ConcAfterDownloadModel(c)
       \/ \E code \in ExitCodes : ConcGetSampleRateClose(c, code)
       \/ \E code \in ExitCodes : ConcConvertToWavClose(c, code)
       \/ \E code \in ExitCodes : ConcConvertSampleRateClose(c, code)
       \/ ConcAfterConvert(c)
       \/ \E code \in ExitCodes : ConcEngineClose(c, code)
       \/ ConcReadArtifact(c)

SpecConcurrent == InitConcurrent /\ [][NextConcurrent]_vars

(***************************************************************************)
(* Properties of two invocations at once.                                  *)
(***************************************************************************)
\* the downloader of caller c has written the whole file and exited with 0
DownloadSucceeded(c) ==
    /\ inv[c].pc \notin {"ready", "dm_spawned", "dm_writing"}
    /\ inv[c].pos = ModelChunks
    /\ Fulfilled(inv[c].dm)

\* C33: when the downloads of two callers for the same missing file have
\* both succeeded, the file on disk is the whole content of one of the two
\* downloads.
C33_LastWriterWins ==
    (\A c \in Callers : DownloadSucceeded(c)) =>
       \E c \in Callers :
          fs[ModelFile(inv[c].model)].data = [i \in 1..ModelChunks |-> c]

\* the model file at the path the downloadModel call of caller c returned
ReturnedModelFile(c) == fs[inv[c].dm.value.modelFile]

\* C34: downloadModel has returned success to a caller only if the file at
\* the returned path is completely written, and the engine is started on a
\* completely written model file only.
C34_SuccessMeansComplete ==
    \A c \in Callers :
       /\ (inv[c].pc = "dm_done" /\ Fulfilled(inv[c].dm) /\ inv[c].dm.value.success)
             => ReturnedModelFile(c).ok
       /\ inv[c].startedOn # <<>> => inv[c].startedOn[1].ok

\* C35: no file other than their input files is written, read or deleted by
\* both of two invocations running at once: the temporary and output audio
\* and the artifacts of one are left alone by the other.
C35_NoSharedFiles ==
    \A t1 \in touched, t2 \in touched : t1.path = t2.path => t1.by = t2.by

====
